---- MODULE Spec2Model ----
(***************************************************************************)
(* A model of the golf-rules question answering program: the hybrid        *)
(* retriever (src/rag/retriever.py), its embedding provider                *)
(* (src/rag/embeddings.py) and the refresh run by the data updater         *)
(* (src/data/updater.py).                                                  *)
(*                                                                         *)
(* Text is a sequence of one-character strings, so that splitting,         *)
(* joining, lower-casing, tokenizing and substring tests are computed as   *)
(* Python computes them.  Floating point scores are fixed point: IDF and   *)
(* similarity in thousandths, fused scores in millionths.                  *)
(***************************************************************************)
EXTENDS Integers, Sequences, FiniteSets, TLC

VARIABLES
    ct,          \* one chunk_text call: its arguments, position and result
    collection,  \* HybridRetriever.collection: the stored chunks, in insertion order
    tfidf_cache, \* HybridRetriever.tfidf_cache: term -> IDF
    last,        \* the last retriever operation and what it returned
    hist,        \* history: what has happened to the corpus so far
    upd,         \* DataUpdater.update_rules: its position and locals
    qry,         \* a hybrid_search running in another thread: position and locals
    freshness,   \* the data_freshness row of data type 'rules'
    thr,         \* the request threads that run hybrid_search side by side
    ev,          \* one call of a scoring or evaluation function: arguments and result
    qa           \* ClaudeQASystem.answer_question: its position, result and logs

vars == <<ct, collection, tfidf_cache, last, hist, upd, qry, freshness, thr, ev, qa>>

refreshVars == <<upd, qry, freshness>>

auxVars == <<thr, ev, qa>>

(***************************************************************************)
(* Bounds of the model.                                                    *)
(***************************************************************************)
MaxWords == 5

MaxChunkSize == 4

MaxOverlap == 5

\* the number of retriever operations of one run
MaxOps == 2

\* the largest top_k asked for
MaxTopK == 13

\* the number of update_rules runs and of concurrent queries of one run
MaxRefreshes == 1

MaxQueries == 1

(***************************************************************************)
(* Characters and strings (Python str).                                    *)
(***************************************************************************)
WhiteSpace == {" ", "\n", "\t"}

UpperCase == {"A", "B", "C", "T"}

LowerCase == {"a", "b", "c", "d", "e", "f", "t"}

Digits == {"0", "1", "2", "3", "4", "5", "6", "7", "8", "9"}

\* str.lower() on one character
LowerChar(c) ==
    CASE c = "A" -> "a"
      [] c = "B" -> "b"
      [] c = "C" -> "c"
      [] c = "T" -> "t"
      [] OTHER -> c

\* str.lower()
Lower(s) == [i \in 1..Len(s) |-> LowerChar(s[i])]

\* the regular expression class \w
IsWordChar(c) == c \in UpperCase \cup LowerCase \cup Digits \cup {"_"}

RECURSIVE SplitAcc(_, _, _, _)
SplitAcc(s, i, cur, acc) ==
    IF i > Len(s)
    THEN IF cur = <<>> THEN acc ELSE Append(acc, cur)
    ELSE IF s[i] \in WhiteSpace
         THEN SplitAcc(s, i + 1, <<>>, IF cur = <<>> THEN acc ELSE Append(acc, cur))
         ELSE SplitAcc(s, i + 1, Append(cur, s[i]), acc)

\* str.split() with no argument: the maximal runs of non-whitespace
Split(s) == SplitAcc(s, 1, <<>>, <<>>)

RECURSIVE JoinFrom(_, _)
JoinFrom(words, i) ==
    IF i > Len(words) THEN <<>>
    ELSE IF i = Len(words) THEN words[i]
    ELSE words[i] \o <<" ">> \o JoinFrom(words, i + 1)

\* ' '.join(words)
Join(words) == JoinFrom(words, 1)

\* the Python slice s[lo:hi] for 0 <= lo, 0 <= hi (0-based, hi excluded)
Slice(s, lo, hi) ==
    LET h == IF hi > Len(s) THEN Len(s) ELSE hi
    IN  IF lo >= h THEN <<>> ELSE SubSeq(s, lo + 1, h)

Min(a, b) == IF a < b THEN a ELSE b

Max(a, b) == IF a > b THEN a ELSE b

\* ceil(a / b) for a >= 0, b > 0
Ceil(a, b) == (a + b - 1) \div b

(***************************************************************************)
(* HybridRetriever.chunk_text                                              *)
(***************************************************************************)
\* the values of range(0, n, step) for step > 0
RangeStarts(n, step) == [k \in 1..Ceil(n, step) |-> (k - 1) * step]

\* a window that starts one word late
ChunkAt_Late(words, i, chunk_size) == Join(Slice(words, i + 1, i + 1 + chunk_size))

\* the loop body's chunk for start i: ' '.join(words[i:i + chunk_size])
ChunkAt(words, i, chunk_size) == Join(Slice(words, i, i + chunk_size))

\* the loop of chunk_text over the starts, keeping the non-empty chunks
RECURSIVE ChunkLoop(_, _, _, _)
ChunkLoop(words, starts, k, chunk_size) ==
    IF k > Len(starts) THEN <<>>
    ELSE LET chunk == ChunkAt(words, starts[k], chunk_size)
         IN  (IF chunk # <<>> THEN <<chunk>> ELSE <<>>)
             \o ChunkLoop(words, starts, k + 1, chunk_size)

\* a chunk_text that steps by chunk_size, ignoring the overlap
chunk_text_NoOverlap(text, chunk_size, overlap) ==
    LET words == Split(text)
    IN  [error |-> "none",
         chunks |-> ChunkLoop(words, RangeStarts(Len(words), chunk_size), 1, chunk_size)]

\* a chunk_text that stops once a window reaches the end of the text
chunk_text_NoTail(text, chunk_size, overlap) ==
    LET words == Split(text)
        step == chunk_size - overlap
        n == IF Len(words) = 0 THEN 0 ELSE Max(Len(words) - overlap, 1)
    IN  IF step = 0 THEN [error |-> "ValueError", chunks |-> <<>>]
        ELSE IF step < 0 THEN [error |-> "none", chunks |-> <<>>]
        ELSE [error |-> "none",
              chunks |-> ChunkLoop(words, RangeStarts(n, step), 1, chunk_size)]

\* chunk_text(text, chunk_size, overlap): range() raises ValueError for a zero
\* step and is empty for a negative one
chunk_text(text, chunk_size, overlap) ==
    LET words == Split(text)
        step == chunk_size - overlap
    IN  IF step = 0 THEN [error |-> "ValueError", chunks |-> <<>>]
        ELSE IF step < 0 THEN [error |-> "none", chunks |-> <<>>]
        ELSE [error |-> "none",
              chunks |-> ChunkLoop(words, RangeStarts(Len(words), step), 1, chunk_size)]

(***************************************************************************)
(* The chunker on its own: every text, chunk size and overlap of the       *)
(* bounds, one call each.                                                  *)
(***************************************************************************)
WordList == <<"a", "b", "c", "d", "e", "f", "a", "b">>

\* a text of n words; untidy texts carry leading, doubled and trailing whitespace
RECURSIVE TextOf(_, _)
TextOf(n, untidy) ==
    IF n = 0 THEN (IF untidy THEN <<" ", "\n">> ELSE <<>>)
    ELSE IF n = 1 THEN (IF untidy THEN <<"\t", WordList[1], " ">> ELSE <<WordList[1]>>)
    ELSE TextOf(n - 1, untidy)
         \o (IF untidy THEN <<"\n", " ", WordList[n], "\n">> ELSE <<" ", WordList[n]>>)

NoResult == [error |-> "pending", chunks |-> <<>>]

CtIdle == [pc |-> "idle", text |-> <<>>, nwords |-> 0, chunk_size |-> 1,
           overlap |-> 0, result |-> NoResult]

InitChunk ==
    ct \in {[pc |-> "call", text |-> TextOf(n, u), nwords |-> n, chunk_size |-> c,
             overlap |-> o, result |-> NoResult] :
                n \in 0..MaxWords, u \in BOOLEAN, c \in 1..MaxChunkSize,
                o \in 0..MaxOverlap}

ChunkTextCall ==
    /\ ct.pc = "call"
    /\ ct' = [ct EXCEPT !.pc = "done",
                        !.result = chunk_text(ct.text, ct.chunk_size, ct.overlap)]
    /\ UNCHANGED <<collection, tfidf_cache, last, hist>>
    /\ UNCHANGED refreshVars
    /\ UNCHANGED auxVars

(***************************************************************************)
(* Documents and stored chunks.                                            *)
(***************************************************************************)
DefaultChunkSize == 512

DefaultOverlap == 50

batch_size == 100

DigitChar(d) == <<"0", "1", "2", "3", "4", "5", "6", "7", "8", "9">>[d + 1]

\* str(n) for n >= 0
RECURSIVE Str(_)
Str(n) == IF n < 10 THEN <<DigitChar(n)>> ELSE Str(n \div 10) \o <<DigitChar(n % 10)>>

\* full_text = f"{title}\n\n{content}"
FullText(doc) == doc.title \o <<"\n", "\n">> \o doc.content

\* f"{rule_id}_chunk_{idx}"
ChunkId(rule_id, idx) == rule_id \o <<"_", "c", "h", "u", "n", "k", "_">> \o Str(idx)

\* the entries add_documents builds for one document from its chunks
DocEntries(doc, chunks) ==
    [k \in 1..Len(chunks) |->
        [id |-> ChunkId(doc.rule_id, k - 1),
         document |-> chunks[k],
         rule_id |-> doc.rule_id,
         title |-> doc.title,
         chunk_index |-> k - 1,
         total_chunks |-> Len(chunks)]]

\* the loop of add_documents over the documents: all entries, or the error of
\* the first chunk_text call that raises
RECURSIVE BuildEntriesFrom(_, _, _, _)
BuildEntriesFrom(documents, d, chunk_size, entries) ==
    IF d > Len(documents) THEN [error |-> "none", entries |-> entries]
    ELSE LET r == chunk_text(FullText(documents[d]), chunk_size, DefaultOverlap)
         IN  IF r.error # "none" THEN [error |-> r.error, entries |-> <<>>]
             ELSE BuildEntriesFrom(documents, d + 1, chunk_size,
                                   entries \o DocEntries(documents[d], r.chunks))

BuildEntries(documents, d, chunk_size) ==
    BuildEntriesFrom(documents, d, chunk_size, <<>>)

(***************************************************************************)
(* The embedding provider.  A vector is represented by the text it was     *)
(* computed from.  The provider answers with one vector per text ("ok"),   *)
(* with one vector too many or too few, or it raises.                      *)
(***************************************************************************)
EmbedOutcomes == {"ok", "long", "short", "raise"}

\* EmbeddingService.embed_texts
embed_texts(texts, outcome) ==
    IF texts = <<>> THEN [error |-> "none", vectors |-> <<>>]
    ELSE CASE outcome = "ok" -> [error |-> "none", vectors |-> texts]
           [] outcome = "long" -> [error |-> "none", vectors |-> <<texts[1]>> \o texts]
           [] outcome = "short" -> [error |-> "none", vectors |-> Tail(texts)]
           [] OTHER -> [error |-> "ProviderError", vectors |-> <<>>]

(***************************************************************************)
(* The vector store (ChromaDB collection).                                 *)
(***************************************************************************)
EmptyCollection == [alive |-> TRUE, items |-> <<>>]

Ids(items) == {items[i].id : i \in 1..Len(items)}

\* a store that keeps an entry whose id is stored already
FreshOnly_KeepStored(batch, k, stored) == batch

\* the entries of a batch whose id is not stored yet, in order
RECURSIVE FreshOnly(_, _, _)
FreshOnly(batch, k, stored) ==
    IF k > Len(batch) THEN <<>>
    ELSE (IF batch[k].id \in stored THEN <<>> ELSE <<batch[k]>>)
         \o FreshOnly(batch, k + 1, stored)

\* collection.add(documents, embeddings, metadatas, ids): raises when the
\* collection is gone, when the lengths differ or when an id repeats within
\* the call; an id that is already stored is skipped
CollectionAdd(coll, batch, vectors) ==
    IF ~coll.alive THEN [error |-> "StoreError", coll |-> coll]
    ELSE IF Len(vectors) # Len(batch) THEN [error |-> "ValueError", coll |-> coll]
    ELSE IF Cardinality(Ids(batch)) # Len(batch)
         THEN [error |-> "DuplicateIDError", coll |-> coll]
    ELSE LET paired == [k \in 1..Len(batch) |->
                           [id |-> batch[k].id,
                            document |-> batch[k].document,
                            rule_id |-> batch[k].rule_id,
                            title |-> batch[k].title,
                            chunk_index |-> batch[k].chunk_index,
                            total_chunks |-> batch[k].total_chunks,
                            embedding |-> vectors[k]]]
         IN  [error |-> "none",
              coll |-> [coll EXCEPT !.items = @ \o FreshOnly(paired, 1, Ids(coll.items))]]

\* the batch loop of add_documents from 0-based start i
RECURSIVE AddBatches(_, _, _, _)
AddBatches(coll, entries, vectors, i) ==
    IF i >= Len(entries) THEN [error |-> "none", coll |-> coll]
    ELSE LET end_idx == Min(i + batch_size, Len(entries))
             r == CollectionAdd(coll, Slice(entries, i, end_idx), Slice(vectors, i, end_idx))
         IN  IF r.error # "none" THEN r
             ELSE AddBatches(r.coll, entries, vectors, i + batch_size)

\* add_documents(documents, chunk_size) with the provider's outcome: the error
\* raised, if any, and the collection the call leaves behind
AddDocuments(coll, documents, chunk_size, outcome) ==
    LET built == BuildEntries(documents, 1, chunk_size)
        texts == [k \in 1..Len(built.entries) |-> built.entries[k].document]
        emb == embed_texts(texts, outcome)
    IN  IF built.error # "none" THEN [error |-> built.error, coll |-> coll]
        ELSE IF built.entries = <<>> THEN [error |-> "none", coll |-> coll]
        ELSE IF emb.error # "none" THEN [error |-> emb.error, coll |-> coll]
        ELSE AddBatches(coll, built.entries, emb.vectors, 0)

(***************************************************************************)
(* Tokenization and TF-IDF.                                                *)
(***************************************************************************)
\* _tokenize: re.sub(r'[^\w\s]', ' ', text).split()
_tokenize(text) ==
    Split([i \in 1..Len(text) |->
              IF IsWordChar(text[i]) \/ text[i] \in WhiteSpace THEN text[i] ELSE " "])

\* Python's "t in s" on strings
IsSubstring(t, s) ==
    \E i \in 1..(Len(s) - Len(t) + 1) : SubSeq(s, i, i + Len(t) - 1) = t

\* Counter(doc_tokens).get(term, 0)
CountOf(tokens, term) == Cardinality({i \in 1..Len(tokens) : tokens[i] = term})

\* round(1000 * ln(n)) for n in 1..40
LnTable ==
    <<0, 693, 1099, 1386, 1609, 1792, 1946, 2079, 2197, 2303,
      2398, 2485, 2565, 2639, 2708, 2773, 2833, 2890, 2944, 2996,
      3045, 3091, 3135, 3178, 3219, 3258, 3296, 3332, 3367, 3401,
      3434, 3466, 3497, 3526, 3555, 3584, 3611, 3638, 3664, 3689>>

\* math.log(a / b) in thousandths
LnRatio(a, b) == LnTable[a] - LnTable[b]

\* doc_count = sum(1 for doc in all_docs if term in doc.lower())
DocCount(term, all_docs) ==
    Cardinality({i \in 1..Len(all_docs) : IsSubstring(term, Lower(all_docs[i]))})

\* the IDF the code computes for a term it has not cached, in thousandths
ComputeIdf(term, all_docs) ==
    LET doc_count == DocCount(term, all_docs)
    IN  IF doc_count > 0 THEN LnRatio(Len(all_docs) + 1, doc_count + 1) ELSE 0

\* a cache write whose value grows with the number of terms cached before it
CachePut_Stamped(cache, term, idf) ==
    [t \in DOMAIN cache \cup {term} |->
        IF t = term THEN idf + 100 * Cardinality(DOMAIN cache) ELSE cache[t]]

\* self.tfidf_cache[term] = idf
CachePut(cache, term, idf) ==
    [t \in DOMAIN cache \cup {term} |-> IF t = term THEN idf ELSE cache[t]]

\* the loop of _calculate_tfidf_score over query_tokens from position k: a
\* term not in the cache is computed and stored, then read
\* tf * idf for one term, in thousandths
TfIdf(term, doc_tokens, idf) ==
    IF Len(doc_tokens) > 0
    THEN (CountOf(doc_tokens, term) * idf) \div Len(doc_tokens)
    ELSE 0

RECURSIVE TfidfTerms(_, _, _, _, _, _)
TfidfTerms(query_tokens, k, doc_tokens, all_docs, cache, score) ==
    IF k > Len(query_tokens) THEN [score |-> score, cache |-> cache]
    ELSE IF query_tokens[k] \in DOMAIN cache
    THEN TfidfTerms(query_tokens, k + 1, doc_tokens, all_docs, cache,
                    score + TfIdf(query_tokens[k], doc_tokens, cache[query_tokens[k]]))
    ELSE TfidfTerms(query_tokens, k, doc_tokens, all_docs,
                    CachePut(cache, query_tokens[k],
                             ComputeIdf(query_tokens[k], all_docs)),
                    score)

\* _calculate_tfidf_score(query_tokens, doc_tokens, all_docs): the score
\* (thousandths) and the tfidf_cache it leaves
_calculate_tfidf_score(query_tokens, doc_tokens, all_docs, cache) ==
    TfidfTerms(query_tokens, 1, doc_tokens, all_docs, cache, 0)

(***************************************************************************)
(* Stable sort, descending (list.sort(key=..., reverse=True)).             *)
(***************************************************************************)
\* the 1-based place of element i of keys in the sorted order
SortedPlace(keys, i) ==
    Cardinality({j \in 1..Len(keys) : keys[j] > keys[i]})
    + Cardinality({j \in 1..i : keys[j] = keys[i]})

\* seq ordered by keys descending, equal keys in their original order
SortDesc(seq, keys) ==
    [p \in 1..Len(seq) |-> seq[CHOOSE i \in 1..Len(seq) : SortedPlace(keys, i) = p]]

(***************************************************************************)
(* The searches.                                                           *)
(***************************************************************************)
TokenSet(text) == LET t == _tokenize(Lower(text)) IN {t[i] : i \in 1..Len(t)}

\* 1 - cosine distance between the query's vector and a stored vector, in
\* thousandths.  The provider is a black box; the model takes the share of
\* common tokens of the two embedded texts.
Similarity(query, vector) ==
    LET q == TokenSet(query)
        v == TokenSet(vector)
    IN  IF q \cup v = {} THEN 0
        ELSE (1000 * Cardinality(q \cap v)) \div Cardinality(q \cup v)

Metadata(item) ==
    [rule_id |-> item.rule_id, title |-> item.title,
     chunk_index |-> item.chunk_index, total_chunks |-> item.total_chunks]

\* semantic_search(query, top_k): the top_k nearest stored chunks, nearest first
semantic_search(coll, query, top_k) ==
    IF ~coll.alive THEN [error |-> "StoreError", results |-> <<>>]
    ELSE LET items == coll.items
             found == [i \in 1..Len(items) |->
                          [content |-> items[i].document,
                           metadata |-> Metadata(items[i]),
                           similarity |-> Similarity(query, items[i].embedding),
                           method |-> "semantic"]]
             keys == [i \in 1..Len(items) |-> found[i].similarity]
         IN  [error |-> "none", results |-> Slice(SortDesc(found, keys), 0, top_k)]

\* the loop of tfidf_search over all_docs from position i: the scores in
\* document order and the cache it leaves
RECURSIVE TfidfDocs(_, _, _, _, _)
TfidfDocs(query_tokens, all_docs, i, cache, scores) ==
    IF i > Len(all_docs) THEN [scores |-> scores, cache |-> cache]
    ELSE LET r == _calculate_tfidf_score(query_tokens, _tokenize(Lower(all_docs[i])),
                                         all_docs, cache)
         IN  TfidfDocs(query_tokens, all_docs, i + 1, r.cache, Append(scores, r.score))

\* tfidf_search(query, top_k): the results and the tfidf_cache it leaves
tfidf_search(coll, cache, query, top_k) ==
    IF ~coll.alive THEN [error |-> "StoreError", results |-> <<>>, cache |-> cache]
    ELSE IF coll.items = <<>> THEN [error |-> "none", results |-> <<>>, cache |-> cache]
    ELSE LET items == coll.items
             all_docs == [i \in 1..Len(items) |-> items[i].document]
             query_tokens == _tokenize(Lower(query))
             r == TfidfDocs(query_tokens, all_docs, 1, cache, <<>>)
             scores == [i \in 1..Len(items) |->
                           [content |-> items[i].document,
                            metadata |-> Metadata(items[i]),
                            tfidf_score |-> r.scores[i],
                            method |-> "tfidf"]]
         IN  [error |-> "none",
              results |-> Slice(SortDesc(scores, r.scores), 0, top_k),
              cache |-> r.cache]

(***************************************************************************)
(* hybrid_search                                                           *)
(***************************************************************************)
default_semantic_weight == 700

default_tfidf_weight == 300

\* doc_id = metadata.get('rule_id', '') + str(metadata.get('chunk_index', ''))
DocId(metadata) == metadata.rule_id \o Str(metadata.chunk_index)

KeyIndex(combined, key) ==
    IF \E p \in 1..Len(combined) : combined[p].key = key
    THEN CHOOSE p \in 1..Len(combined) : combined[p].key = key
    ELSE 0

\* combined[doc_id] = {...} for each semantic result from position k: an
\* assignment to a key already present replaces the value and keeps its place
RECURSIVE AddSemantic(_, _, _)
AddSemantic(combined, semantic_results, k) ==
    IF k > Len(semantic_results) THEN combined
    ELSE LET result == semantic_results[k]
             doc_id == DocId(result.metadata)
             value == [key |-> doc_id,
                       content |-> result.content,
                       metadata |-> result.metadata,
                       semantic_score |-> result.similarity,
                       tfidf_score |-> 0]
             p == KeyIndex(combined, doc_id)
             next == IF p = 0 THEN Append(combined, value)
                     ELSE [combined EXCEPT ![p] = value]
         IN  AddSemantic(next, semantic_results, k + 1)

\* max([r['tfidf_score'] for r in tfidf_results]) if tfidf_results else 1.0
MaxTfidf(tfidf_results) ==
    IF tfidf_results = <<>> THEN 1000
    ELSE CHOOSE m \in {tfidf_results[i].tfidf_score : i \in 1..Len(tfidf_results)} :
             \A i \in 1..Len(tfidf_results) : tfidf_results[i].tfidf_score <= m

\* result['tfidf_score'] / max_tfidf if max_tfidf > 0 else 0, in thousandths
NormalizedTfidf(score, max_tfidf) ==
    IF max_tfidf > 0 THEN (score * 1000) \div max_tfidf ELSE 0

\* the TF-IDF loop of hybrid_search from position k
RECURSIVE AddTfidf(_, _, _, _)
AddTfidf(combined, tfidf_results, k, max_tfidf) ==
    IF k > Len(tfidf_results) THEN combined
    ELSE LET result == tfidf_results[k]
             doc_id == DocId(result.metadata)
             normalized_tfidf == NormalizedTfidf(result.tfidf_score, max_tfidf)
             p == KeyIndex(combined, doc_id)
             next == IF p # 0
                     THEN [combined EXCEPT ![p].tfidf_score = normalized_tfidf]
                     ELSE Append(combined,
                                 [key |-> doc_id,
                                  content |-> result.content,
                                  metadata |-> result.metadata,
                                  semantic_score |-> 0,
                                  tfidf_score |-> normalized_tfidf])
         IN  AddTfidf(next, tfidf_results, k + 1, max_tfidf)

\* the candidates of hybrid_search: the dict "combined" in insertion order
Combine(semantic_results, tfidf_results) ==
    AddTfidf(AddSemantic(<<>>, semantic_results, 1), tfidf_results, 1,
             MaxTfidf(tfidf_results))

\* final_results before the sort, scores in millionths
FinalResults(combined, semantic_weight, tfidf_weight) ==
    [p \in 1..Len(combined) |->
        [content |-> combined[p].content,
         metadata |-> combined[p].metadata,
         semantic_score |-> combined[p].semantic_score,
         tfidf_score |-> combined[p].tfidf_score,
         final_score |-> semantic_weight * combined[p].semantic_score
                         + tfidf_weight * combined[p].tfidf_score]]

\* hybrid_search(query, top_k, semantic_weight, tfidf_weight): the ranked
\* results, the two source lists and the tfidf_cache it leaves
hybrid_search(coll, cache, query, top_k, semantic_weight, tfidf_weight) ==
    LET sem == semantic_search(coll, query, top_k * 2)
        lex == tfidf_search(coll, cache, query, top_k * 2)
        combined == Combine(sem.results, lex.results)
        final_results == FinalResults(combined, semantic_weight, tfidf_weight)
        keys == [p \in 1..Len(final_results) |-> final_results[p].final_score]
    IN  IF sem.error # "none"
        THEN [error |-> sem.error, results |-> <<>>, cache |-> cache,
              semantic_results |-> <<>>, tfidf_results |-> <<>>]
        ELSE IF lex.error # "none"
        THEN [error |-> lex.error, results |-> <<>>, cache |-> cache,
              semantic_results |-> sem.results, tfidf_results |-> <<>>]
        ELSE [error |-> "none",
              results |-> Slice(SortDesc(final_results, keys), 0, top_k),
              cache |-> lex.cache,
              semantic_results |-> sem.results,
              tfidf_results |-> lex.results]

\* a clear_collection that gets the collection back instead of replacing it
clear_collection_Keep(coll) == coll

\* clear_collection: delete_collection, then create_collection
clear_collection(coll) == EmptyCollection

(***************************************************************************)
(* The retriever as a state machine: one HybridRetriever, its operations   *)
(* called one after the other.                                             *)
(***************************************************************************)
\* a text of one-character words separated by single blanks
Spaced(chars) == Join([i \in 1..Len(chars) |-> <<chars[i]>>])

Rule1 ==
    [rule_id |-> <<"1">>, title |-> <<"T", "e", "e">>,
     content |-> Spaced(<<"a", "b", "a", "b", "a", "b", "a", "b", "a", "c">>)]

Rule11 ==
    [rule_id |-> <<"1", "1">>, title |-> <<"b">>, content |-> <<"A", "b", ".">>]

Rule2 ==
    [rule_id |-> <<"2">>, title |-> <<"c">>, content |-> <<"c", " ", "a">>]

Rule2Revised ==
    [rule_id |-> <<"2">>, title |-> <<"c">>, content |-> <<"b", ",", "b">>]

\* the add_documents calls of the model: the documents and the chunk size
AddCalls ==
    {<<(<<Rule1, Rule11>>), DefaultOverlap + 1>>,
     <<(<<Rule2>>), DefaultChunkSize>>,
     <<(<<Rule2Revised>>), DefaultChunkSize>>}

Queries == {<<"a">>, <<"B", " ", "c", "?">>}

TopKs == {1, MaxTopK}

\* the collections a retriever may find on disk when it is constructed
InitialCollections ==
    {EmptyCollection} \cup
    {AddDocuments(EmptyCollection, c[1], c[2], "ok").coll : c \in AddCalls}

NoOp ==
    [op |-> "none", error |-> "none", query |-> <<>>, top_k |-> 0,
     results |-> <<>>, semantic_results |-> <<>>, tfidf_results |-> <<>>,
     before |-> <<>>, outcome |-> "ok", submitted |-> 0]

HistInit == [ops |-> 0, cleared |-> FALSE]

InitRetriever ==
    /\ collection \in InitialCollections
    /\ tfidf_cache = <<>>
    /\ last = NoOp
    /\ hist = HistInit

UpdIdle ==
    [pc |-> "idle", runs |-> 0, rules |-> <<>>, entries |-> <<>>, vectors |-> <<>>,
     i |-> 0, pre |-> <<>>, success |-> FALSE, error |-> "none", failed_at |-> "none"]

NoSnapshot == [alive |-> TRUE, items |-> <<>>, during |-> FALSE, old |-> <<>>, new |-> <<>>]

QryIdle ==
    [pc |-> "idle", calls |-> 0, query |-> <<>>, top_k |-> 0, error |-> "none",
     semantic_results |-> <<>>, tfidf_results |-> <<>>, results |-> <<>>,
     seen_semantic |-> NoSnapshot, seen_tfidf |-> NoSnapshot]

FreshnessInit == [update_status |-> "none", records_updated |-> 0]

InitRefreshIdle ==
    /\ upd = UpdIdle
    /\ qry = QryIdle
    /\ freshness = FreshnessInit

\* no request threads, no function under evaluation, no question asked
ThrIdle == <<>>

EvIdle == [fn |-> "none"]

QaIdle == [pc |-> "idle"]

AuxIdle ==
    /\ thr = ThrIdle
    /\ ev = EvIdle
    /\ qa = QaIdle

Init ==
    /\ ct = CtIdle
    /\ InitRetriever
    /\ InitRefreshIdle
    /\ AuxIdle

\* the number of chunk texts add_documents submits to the provider
Submitted(documents, chunk_size) ==
    Len(BuildEntries(documents, 1, chunk_size).entries)

\* retriever.add_documents(documents, chunk_size)
AddDocumentsOp ==
    /\ hist.ops < MaxOps
    /\ \E c \in AddCalls, outcome \in EmbedOutcomes :
          LET r == AddDocuments(collection, c[1], c[2], outcome)
          IN  /\ collection' = r.coll
              /\ last' = [NoOp EXCEPT !.op = "add_documents",
                                      !.error = r.error,
                                      !.before = collection.items,
                                      !.outcome = outcome,
                                      !.submitted = Submitted(c[1], c[2])]
    /\ hist' = [ops |-> hist.ops + 1, cleared |-> FALSE]
    /\ UNCHANGED <<ct, tfidf_cache>>
    /\ UNCHANGED refreshVars
    /\ UNCHANGED auxVars

\* retriever.clear_collection()
ClearCollectionOp ==
    /\ hist.ops < MaxOps
    /\ collection' = clear_collection(collection)
    /\ last' = [NoOp EXCEPT !.op = "clear_collection", !.before = collection.items]
    /\ hist' = [ops |-> hist.ops + 1,
                cleared |-> hist.cleared \/ collection.items # <<>>]
    /\ UNCHANGED <<ct, tfidf_cache>>
    /\ UNCHANGED refreshVars
    /\ UNCHANGED auxVars

\* retriever.semantic_search(query, top_k)
SemanticSearchOp ==
    /\ hist.ops < MaxOps
    /\ \E query \in Queries, top_k \in TopKs :
          LET r == semantic_search(collection, query, top_k)
          IN  last' = [NoOp EXCEPT !.op = "semantic_search",
                                   !.error = r.error,
                                   !.query = query,
                                   !.top_k = top_k,
                                   !.results = r.results,
                                   !.before = collection.items]
    /\ hist' = [hist EXCEPT !.ops = @ + 1]
    /\ UNCHANGED <<ct, collection, tfidf_cache>>
    /\ UNCHANGED refreshVars
    /\ UNCHANGED auxVars

\* retriever.tfidf_search(query, top_k)
TfidfSearchOp ==
    /\ hist.ops < MaxOps
    /\ \E query \in Queries, top_k \in TopKs :
          LET r == tfidf_search(collection, tfidf_cache, query, top_k)
          IN  /\ tfidf_cache' = r.cache
              /\ last' = [NoOp EXCEPT !.op = "tfidf_search",
                                      !.error = r.error,
                                      !.query = query,
                                      !.top_k = top_k,
                                      !.results = r.results,
                                      !.before = collection.items]
    /\ hist' = [hist EXCEPT !.ops = @ + 1]
    /\ UNCHANGED <<ct, collection>>
    /\ UNCHANGED refreshVars
    /\ UNCHANGED auxVars

\* retriever.hybrid_search(query, top_k) with the default weights
HybridSearchOp ==
    /\ hist.ops < MaxOps
    /\ \E query \in Queries, top_k \in TopKs :
          LET r == hybrid_search(collection, tfidf_cache, query, top_k,
                                 default_semantic_weight, default_tfidf_weight)
          IN  /\ tfidf_cache' = r.cache
              /\ last' = [NoOp EXCEPT !.op = "hybrid_search",
                                      !.error = r.error,
                                      !.query = query,
                                      !.top_k = top_k,
                                      !.results = r.results,
                                      !.semantic_results = r.semantic_results,
                                      !.tfidf_results = r.tfidf_results,
                                      !.before = collection.items]
    /\ hist' = [hist EXCEPT !.ops = @ + 1]
    /\ UNCHANGED <<ct, collection>>
    /\ UNCHANGED refreshVars
    /\ UNCHANGED auxVars

Next ==
    \/ AddDocumentsOp
    \/ ClearCollectionOp
    \/ SemanticSearchOp
    \/ TfidfSearchOp
    \/ HybridSearchOp

Spec == Init /\ [][Next]_vars

\* the chunker alone
NextChunk == ChunkTextCall

InitChunkSpec ==
    /\ InitChunk
    /\ collection = EmptyCollection
    /\ tfidf_cache = <<>>
    /\ last = NoOp
    /\ hist = HistInit
    /\ InitRefreshIdle
    /\ AuxIdle

SpecChunk == InitChunkSpec /\ [][NextChunk]_vars

(***************************************************************************)
(* Claims about chunk_text, under SpecChunk.                               *)
(***************************************************************************)
ChunkDone == ct.pc = "done"

\* the words the text of the call was built from
CtWords == [i \in 1..ct.nwords |-> <<WordList[i]>>]

\* C3: every call with overlap >= chunk_size fails with a configuration
\* error and returns no chunk list.
C3_BadOverlapRejected ==
    (ChunkDone /\ ct.overlap >= ct.chunk_size) => ct.result.error # "none"

\* C4 as stated: for L > 0 words and 0 <= O < C, chunk_text returns
\* ceil(max(L - O, 0) / (C - O)) chunks.
C4_CountAsStated ==
    (ChunkDone /\ ct.nwords > 0 /\ ct.overlap < ct.chunk_size)
        => Len(ct.result.chunks)
             = Ceil(Max(ct.nwords - ct.overlap, 0), ct.chunk_size - ct.overlap)

\* C4 amended: for L > 0 words and 0 <= O < C, chunk_text raises nothing and
\* returns ceil(L / (C - O)) chunks, one for every start below L.
C4_CountCeilOfWords ==
    (ChunkDone /\ ct.nwords > 0 /\ ct.overlap < ct.chunk_size)
        => /\ ct.result.error = "none"
           /\ Len(ct.result.chunks) = Ceil(ct.nwords, ct.chunk_size - ct.overlap)

\* a call whose last windows lie wholly inside the previous window's overlap
C4_Witness ==
    /\ ChunkDone
    /\ ct.nwords = 3 /\ ct.chunk_size = 2 /\ ct.overlap = 1
    /\ Len(ct.result.chunks) = 3

\* the first n words of each chunk, concatenated in order
RECURSIVE Rejoin(_, _, _)
Rejoin(chunks, k, n) ==
    IF k > Len(chunks) THEN <<>>
    ELSE Slice(Split(chunks[k]), 0, n) \o Rejoin(chunks, k + 1, n)

\* C5: for 0 <= O < C, the first C - O words of each chunk, concatenated in
\* order, are the words of the text, none lost, doubled or moved.
C5_RejoinGivesWords ==
    (ChunkDone /\ ct.overlap < ct.chunk_size)
        => Rejoin(ct.result.chunks, 1, ct.chunk_size - ct.overlap) = CtWords

\* an untidy text of five words cut into three overlapping chunks
C5_Witness ==
    /\ ChunkDone
    /\ ct.nwords = 5 /\ ct.chunk_size = 3 /\ ct.overlap = 1
    /\ ct.text # Join(CtWords)
    /\ Len(ct.result.chunks) = 3
    /\ Rejoin(ct.result.chunks, 1, 2) = CtWords

(***************************************************************************)
(* Claims about the retriever, under Spec.                                 *)
(***************************************************************************)
SearchOps == {"semantic_search", "tfidf_search", "hybrid_search"}

StoredDocs == [i \in 1..Len(collection.items) |-> collection.items[i].document]

\* C1: every IDF held in tfidf_cache is the IDF of its term in the chunks
\* stored now.
C1_CacheMatchesCorpus ==
    \A term \in DOMAIN tfidf_cache : tfidf_cache[term] = ComputeIdf(term, StoredDocs)

\* the identity (rule_id, chunk_index) of a result or stored item
Identity(metadata) == <<metadata.rule_id, metadata.chunk_index>>

StoredBefore ==
    {<<last.before[i].document, last.before[i].rule_id, last.before[i].chunk_index>> :
        i \in 1..Len(last.before)}

\* C6: hybrid_search(query, top_k) on N stored chunks returns min(top_k, N)
\* results, each a stored chunk, no chunk twice.
C6_ReturnsMinTopKStored ==
    (last.op = "hybrid_search" /\ last.error = "none")
        => /\ Len(last.results) = Min(last.top_k, Len(last.before))
           /\ \A i \in 1..Len(last.results) :
                 <<last.results[i].content, last.results[i].metadata.rule_id,
                   last.results[i].metadata.chunk_index>> \in StoredBefore
           /\ \A i, j \in 1..Len(last.results) :
                 i # j => Identity(last.results[i].metadata)
                            # Identity(last.results[j].metadata)

\* C7: a search that follows clear_collection on a non-empty corpus, with no
\* add_documents in between, returns the empty list and raises nothing.
C7_EmptyAfterClear ==
    (last.op \in SearchOps /\ hist.cleared)
        => (last.results = <<>> /\ last.error = "none")

\* a hybrid_search right after a non-empty corpus was cleared
C7_Witness ==
    /\ last.op = "hybrid_search"
    /\ hist.cleared
    /\ last.results = <<>>
    /\ collection.items = <<>>

\* C8: when the provider answers with another number of vectors than texts
\* submitted, add_documents fails and stores nothing.
C8_CountMismatchRejected ==
    (last.op = "add_documents" /\ last.submitted > 0
        /\ last.outcome \in {"long", "short"})
        => (last.error # "none" /\ collection.items = last.before)

\* the candidates of the last hybrid_search: both source lists
Candidates ==
    {last.semantic_results[i].metadata : i \in 1..Len(last.semantic_results)}
    \cup {last.tfidf_results[i].metadata : i \in 1..Len(last.tfidf_results)}

\* C10: two candidates of a hybrid_search that differ in rule_id or in
\* chunk_index never have the same fusion key.
C10_KeysSeparateChunks ==
    last.op = "hybrid_search"
        => \A m1, m2 \in Candidates :
              Identity(m1) # Identity(m2) => DocId(m1) # DocId(m2)

(***************************************************************************)
(* The refresh: update_rules, as the scheduler's thread runs it, beside a  *)
(* hybrid_search of the request thread on the same retriever.  Each action *)
(* is one access to the shared collection; nothing in the code orders the  *)
(* two threads.                                                            *)
(***************************************************************************)
\* what scrape_all_rules (or get_sample_rules) may return
ScrapeResults == {<<>>, <<Rule2Revised>>, <<Rule1, Rule11>>}

\* the corpus a complete ingestion of rules into an empty collection stores
IngestedItems(rules) ==
    AddDocuments(EmptyCollection, rules, DefaultChunkSize, "ok").coll.items

\* update_rules is called: update_data_freshness(status='in_progress')
UpdateRulesStart ==
    /\ upd.pc \in {"idle", "done"}
    /\ upd.runs < MaxRefreshes
    /\ upd' = [UpdIdle EXCEPT !.pc = "scrape", !.runs = upd.runs + 1,
                              !.pre = collection.items]
    /\ freshness' = [update_status |-> "in_progress", records_updated |-> 0]
    /\ UNCHANGED <<ct, collection, tfidf_cache, last, hist, qry>>
    /\ UNCHANGED auxVars

\* the rules are scraped and inserted into the database; no rules raises
UpdateRulesScrape ==
    /\ upd.pc = "scrape"
    /\ \E rules \in ScrapeResults :
          upd' = IF rules = <<>>
                 THEN [upd EXCEPT !.pc = "except", !.error = "Exception",
                                  !.failed_at = "scrape"]
                 ELSE [upd EXCEPT !.pc = "delete", !.rules = rules]
    /\ UNCHANGED <<ct, collection, tfidf_cache, last, hist, qry, freshness>>
    /\ UNCHANGED auxVars

\* clear_collection, first half: client.delete_collection
UpdateRulesDelete ==
    /\ upd.pc = "delete"
    /\ collection' = [collection EXCEPT !.alive = FALSE]
    /\ upd' = [upd EXCEPT !.pc = "create"]
    /\ UNCHANGED <<ct, tfidf_cache, last, hist, qry, freshness>>
    /\ UNCHANGED auxVars

\* clear_collection, second half: self.collection = client.create_collection
UpdateRulesCreate ==
    /\ upd.pc = "create"
    /\ collection' = EmptyCollection
    /\ upd' = [upd EXCEPT !.pc = "embed"]
    /\ UNCHANGED <<ct, tfidf_cache, last, hist, qry, freshness>>
    /\ UNCHANGED auxVars

\* add_documents up to the provider's answer: the chunks are built and embedded
UpdateRulesEmbed ==
    /\ upd.pc = "embed"
    /\ \E outcome \in EmbedOutcomes :
          LET built == BuildEntries(upd.rules, 1, DefaultChunkSize)
              texts == [k \in 1..Len(built.entries) |-> built.entries[k].document]
              emb == embed_texts(texts, outcome)
          IN  upd' = IF built.error # "none"
                     THEN [upd EXCEPT !.pc = "except", !.error = built.error,
                                      !.failed_at = "add_documents"]
                     ELSE IF built.entries = <<>>
                     THEN [upd EXCEPT !.pc = "finish"]
                     ELSE IF emb.error # "none"
                     THEN [upd EXCEPT !.pc = "except", !.error = emb.error,
                                      !.failed_at = "add_documents"]
                     ELSE [upd EXCEPT !.pc = "batch", !.entries = built.entries,
                                      !.vectors = emb.vectors, !.i = 0]
    /\ UNCHANGED <<ct, collection, tfidf_cache, last, hist, qry, freshness>>
    /\ UNCHANGED auxVars

\* one turn of the batch loop of add_documents: collection.add of a batch
UpdateRulesBatch ==
    /\ upd.pc = "batch"
    /\ IF upd.i >= Len(upd.entries)
       THEN /\ upd' = [upd EXCEPT !.pc = "finish"]
            /\ UNCHANGED collection
       ELSE LET end_idx == Min(upd.i + batch_size, Len(upd.entries))
                r == CollectionAdd(collection, Slice(upd.entries, upd.i, end_idx),
                                   Slice(upd.vectors, upd.i, end_idx))
            IN  IF r.error # "none"
                THEN /\ upd' = [upd EXCEPT !.pc = "except", !.error = r.error,
                                           !.failed_at = "add_documents"]
                     /\ UNCHANGED collection
                ELSE /\ upd' = [upd EXCEPT !.i = upd.i + batch_size]
                     /\ collection' = r.coll
    /\ UNCHANGED <<ct, tfidf_cache, last, hist, qry, freshness>>
    /\ UNCHANGED auxVars

\* update_data_freshness(status='success'); return {'success': True, ...}
UpdateRulesFinish ==
    /\ upd.pc = "finish"
    /\ upd' = [upd EXCEPT !.pc = "done", !.success = TRUE]
    /\ freshness' = [update_status |-> "success", records_updated |-> Len(upd.rules)]
    /\ UNCHANGED <<ct, collection, tfidf_cache, last, hist, qry>>
    /\ UNCHANGED auxVars

\* the except branch: update_data_freshness(status='failed'); return
\* {'success': False, ...}
UpdateRulesExcept ==
    /\ upd.pc = "except"
    /\ upd' = [upd EXCEPT !.pc = "done", !.success = FALSE]
    /\ freshness' = [update_status |-> "failed", records_updated |-> 0]
    /\ UNCHANGED <<ct, collection, tfidf_cache, last, hist, qry>>
    /\ UNCHANGED auxVars

\* update_rules is between the start of clear_collection and the end of
\* add_documents
Refreshing == upd.pc \in {"create", "embed", "batch"}

\* what a read of the collection finds, and the corpora before and after the
\* refresh that is running
Snapshot ==
    [alive |-> collection.alive,
     items |-> collection.items,
     during |-> Refreshing,
     old |-> IF Refreshing THEN upd.pre ELSE <<>>,
     new |-> IF Refreshing THEN IngestedItems(upd.rules) ELSE <<>>]

\* the request thread calls hybrid_search(query, top_k)
QueryStart ==
    /\ qry.pc \in {"idle", "done"}
    /\ qry.calls < MaxQueries
    /\ \E query \in Queries, top_k \in TopKs :
          qry' = [QryIdle EXCEPT !.pc = "semantic", !.calls = qry.calls + 1,
                                 !.query = query, !.top_k = top_k]
    /\ UNCHANGED <<ct, collection, tfidf_cache, last, hist, upd, freshness>>
    /\ UNCHANGED auxVars

\* semantic_results = self.semantic_search(query, top_k * 2)
QuerySemantic ==
    /\ qry.pc = "semantic"
    /\ LET r == semantic_search(collection, qry.query, qry.top_k * 2)
       IN  qry' = [qry EXCEPT !.pc = IF r.error = "none" THEN "tfidf" ELSE "done",
                              !.error = r.error,
                              !.semantic_results = r.results,
                              !.seen_semantic = Snapshot]
    /\ UNCHANGED <<ct, collection, tfidf_cache, last, hist, upd, freshness>>
    /\ UNCHANGED auxVars

\* tfidf_results = self.tfidf_search(query, top_k * 2)
QueryTfidf ==
    /\ qry.pc = "tfidf"
    /\ LET r == tfidf_search(collection, tfidf_cache, qry.query, qry.top_k * 2)
       IN  /\ qry' = [qry EXCEPT !.pc = IF r.error = "none" THEN "fuse" ELSE "done",
                                 !.error = r.error,
                                 !.tfidf_results = r.results,
                                 !.seen_tfidf = Snapshot]
           /\ tfidf_cache' = r.cache
    /\ UNCHANGED <<ct, collection, last, hist, upd, freshness>>
    /\ UNCHANGED auxVars

\* the fusion, the sort and the cut to top_k
QueryFuse ==
    /\ qry.pc = "fuse"
    /\ LET final_results == FinalResults(Combine(qry.semantic_results, qry.tfidf_results),
                                         default_semantic_weight, default_tfidf_weight)
           keys == [p \in 1..Len(final_results) |-> final_results[p].final_score]
       IN  qry' = [qry EXCEPT !.pc = "done",
                              !.results = Slice(SortDesc(final_results, keys), 0, qry.top_k)]
    /\ UNCHANGED <<ct, collection, tfidf_cache, last, hist, upd, freshness>>
    /\ UNCHANGED auxVars

\* the collections the refresh may find: a corpus ingested by an earlier run
InitRefresh ==
    /\ ct = CtIdle
    /\ collection \in {EmptyCollection,
                       [alive |-> TRUE, items |-> IngestedItems(<<Rule2>>)]}
    /\ tfidf_cache = <<>>
    /\ last = NoOp
    /\ hist = HistInit
    /\ InitRefreshIdle
    /\ AuxIdle

NextRefresh ==
    \/ UpdateRulesStart
    \/ UpdateRulesScrape
    \/ UpdateRulesDelete
    \/ UpdateRulesCreate
    \/ UpdateRulesEmbed
    \/ UpdateRulesBatch
    \/ UpdateRulesFinish
    \/ UpdateRulesExcept
    \/ QueryStart
    \/ QuerySemantic
    \/ QueryTfidf
    \/ QueryFuse

SpecRefresh == InitRefresh /\ [][NextRefresh]_vars

(***************************************************************************)
(* Claims about the refresh, under SpecRefresh.                            *)
(***************************************************************************)
\* C2: a read of the collection made by hybrid_search while a refresh runs
\* finds the whole corpus of before the refresh or the whole new one, never
\* a deleted, an emptied or a partly filled collection.
C2_QuerySeesWholeCorpus ==
    \A snap \in {qry.seen_semantic, qry.seen_tfidf} :
        snap.during => (snap.alive /\ snap.items \in {snap.old, snap.new})

\* C9: when the refresh of update_rules fails in add_documents, the corpus
\* is the one update_rules found when it was called.
C9_FailedRefreshKeepsCorpus ==
    (upd.pc = "done" /\ ~upd.success /\ upd.failed_at = "add_documents")
        => (collection.alive /\ collection.items = upd.pre)

(***************************************************************************)
(* Claims about the fusion of hybrid_search, under Spec.                   *)
(***************************************************************************)
HybridDone == last.op = "hybrid_search" /\ last.error = "none"

\* the chunks (content, rule_id, chunk_index) of a list of results
ChunksOf(results) ==
    {<<results[i].content, Identity(results[i].metadata)>> : i \in 1..Len(results)}

\* the dict "combined" of the last hybrid_search
LastCombined == Combine(last.semantic_results, last.tfidf_results)

\* C11: the candidates of hybrid_search are exactly the chunks of the two
\* source lists, each once; a candidate that is only in the semantic list has
\* tfidf_score 0.0, one that is only in the TF-IDF list has semantic_score 0.0.
C11_CandidatesAreUnion ==
    HybridDone
        => /\ ChunksOf(LastCombined)
                = ChunksOf(last.semantic_results) \cup ChunksOf(last.tfidf_results)
           /\ Len(LastCombined) = Cardinality(ChunksOf(LastCombined))
           /\ \A p \in 1..Len(LastCombined) :
                 LET c == <<LastCombined[p].content, Identity(LastCombined[p].metadata)>>
                 IN  /\ c \notin ChunksOf(last.tfidf_results)
                          => LastCombined[p].tfidf_score = 0
                     /\ c \notin ChunksOf(last.semantic_results)
                          => LastCombined[p].semantic_score = 0

\* where a chunk was first met by the fusion loops: its place in the
\* semantic list, or behind that list its place in the TF-IDF list
ChunkPlace(c) ==
    LET sem == {i \in 1..Len(last.semantic_results) :
                   <<last.semantic_results[i].content,
                     Identity(last.semantic_results[i].metadata)>> = c}
        lex == {i \in 1..Len(last.tfidf_results) :
                   <<last.tfidf_results[i].content,
                     Identity(last.tfidf_results[i].metadata)>> = c}
    IN  IF sem # {} THEN CHOOSE i \in sem : \A j \in sem : i <= j
        ELSE IF lex # {}
        THEN Len(last.semantic_results) + (CHOOSE i \in lex : \A j \in lex : i <= j)
        ELSE 0

\* C12: the results of hybrid_search are in descending order of final_score,
\* and of two results with equal final_score the one whose chunk comes first
\* in the semantic list, or behind that list in the TF-IDF list, is first.
C12_TiesByChunkOrder ==
    HybridDone
        => \A i, j \in 1..Len(last.results) :
              i < j =>
                 \/ last.results[i].final_score > last.results[j].final_score
                 \/ /\ last.results[i].final_score = last.results[j].final_score
                    /\ ChunkPlace(<<last.results[i].content,
                                    Identity(last.results[i].metadata)>>)
                         < ChunkPlace(<<last.results[j].content,
                                        Identity(last.results[j].metadata)>>)

(***************************************************************************)
(* Claims about the IDF, under Spec.                                       *)
(***************************************************************************)
\* the first operation of the retriever was a lexical search: every IDF in
\* tfidf_cache was computed by it, from the chunks stored now
FirstLexicalSearch ==
    /\ last.op \in {"tfidf_search", "hybrid_search"}
    /\ last.error = "none"
    /\ hist.ops = 1

\* C13: the IDF computed for a term found in df of the N stored chunks is
\* ln((N + 1) / (df + 1)), for df = 0 (ln(N + 1)) as for every other df.
C13_IdfFormula ==
    FirstLexicalSearch
        => \A term \in DOMAIN tfidf_cache :
              tfidf_cache[term]
                 = LnRatio(Len(StoredDocs) + 1, DocCount(term, StoredDocs) + 1)

\* the number of chunks whose token list contains the term
TokenDocCount(term, all_docs) ==
    Cardinality({i \in 1..Len(all_docs) :
                    CountOf(_tokenize(Lower(all_docs[i])), term) > 0})

\* C14: the document frequency taken for a term's IDF is the number of
\* chunks that have the term among their tokens.
C14_DfCountsTokens ==
    FirstLexicalSearch
        => \A term \in DOMAIN tfidf_cache :
              DocCount(term, StoredDocs) = TokenDocCount(term, StoredDocs)

(***************************************************************************)
(* The fused score in floating point.  Python floats are binary floating   *)
(* point numbers rounded to the nearest, ties to even, after every         *)
(* operation; the model keeps FloatBits bits of mantissa where a double    *)
(* keeps 53.  A float is m * 2^e, m of at most FloatBits bits.             *)
(***************************************************************************)
FloatBits == 4

\* the binades below 1 that the scores of the model are drawn from
FloatExps == 3

\* the number of bits of n
BitLen(n) == IF n = 0 THEN 0 ELSE CHOOSE k \in 1..30 : 2^(k - 1) <= n /\ n < 2^k

\* n * 2^e rounded to FloatBits bits, to the nearest, ties to even
RoundEven(n, e) ==
    LET shift == BitLen(n) - FloatBits
    IN  IF shift <= 0 THEN [m |-> n, e |-> e]
        ELSE LET q == n \div 2^shift
                 r == n % 2^shift
                 half == 2^(shift - 1)
                 up == r > half \/ (r = half /\ q % 2 = 1)
             IN  [m |-> IF up THEN q + 1 ELSE q, e |-> e + shift]

\* the mantissa of a written in units of 2^e, for e <= a.e
Aligned(a, e) == a.m * 2^(a.e - e)

\* a * b
FMul(a, b) == RoundEven(a.m * b.m, a.e + b.e)

\* a + b
FAdd(a, b) ==
    LET e == Min(a.e, b.e) IN RoundEven(Aligned(a, e) + Aligned(b, e), e)

\* a - b for a >= b
FSub(a, b) ==
    LET e == Min(a.e, b.e) IN RoundEven(Aligned(a, e) - Aligned(b, e), e)

\* a < b
FLess(a, b) ==
    LET e == Min(a.e, b.e) IN Aligned(a, e) < Aligned(b, e)

\* a fused score that gives each score the other one's weight
FusedScore_Crossed(semantic_weight, semantic_score, tfidf_weight, tfidf_score) ==
    FAdd(FMul(semantic_weight, tfidf_score), FMul(tfidf_weight, semantic_score))

\* final_score = semantic_weight * data['semantic_score']
\*               + tfidf_weight * data['tfidf_score']
FusedScore(semantic_weight, semantic_score, tfidf_weight, tfidf_score) ==
    FAdd(FMul(semantic_weight, semantic_score), FMul(tfidf_weight, tfidf_score))

\* the scores of the model: 0.0, 1.0 and every float of FloatExps binades below 1
Scores ==
    {[m |-> 0, e |-> 0], [m |-> 1, e |-> 0]}
    \cup {[m |-> m, e |-> 0 - FloatBits - b] :
             m \in 2^(FloatBits - 1)..(2^FloatBits - 1), b \in 0..(FloatExps - 1)}

\* the weights and weight shifts of the model: the quarters from 0 to 1
Quarter(k) == [m |-> k, e |-> 0 - 2]

\* semantic_weight, tfidf_weight and d in quarters, 0 < d <= tfidf_weight
WeightShifts == {w \in (0..4) \X (1..4) \X (1..2) : w[3] <= w[2]}

\* one candidate scored twice: with the weights (semantic_weight,
\* tfidf_weight) and with d <= tfidf_weight moved from tfidf_weight to
\* semantic_weight
InitFuse ==
    /\ ct = CtIdle
    /\ collection = EmptyCollection
    /\ tfidf_cache = <<>>
    /\ last = NoOp
    /\ hist = HistInit
    /\ InitRefreshIdle
    /\ thr = ThrIdle
    /\ qa = QaIdle
    /\ ev \in {[fn |-> "final_score", pc |-> "call",
                semantic_score |-> s, tfidf_score |-> l,
                semantic_weight |-> Quarter(w[1]), tfidf_weight |-> Quarter(w[2]),
                d |-> Quarter(w[3]),
                base |-> Quarter(0), shifted |-> Quarter(0)] :
                   s \in Scores, l \in Scores, w \in WeightShifts}

\* the final_score of the candidate under both pairs of weights
FinalScoreCall ==
    /\ ev.pc = "call"
    /\ ev' = [ev EXCEPT
                !.pc = "done",
                !.base = FusedScore(ev.semantic_weight, ev.semantic_score,
                                    ev.tfidf_weight, ev.tfidf_score),
                !.shifted = FusedScore(FAdd(ev.semantic_weight, ev.d),
                                       ev.semantic_score,
                                       FSub(ev.tfidf_weight, ev.d),
                                       ev.tfidf_score)]
    /\ UNCHANGED <<ct, collection, tfidf_cache, last, hist, thr, qa>>
    /\ UNCHANGED refreshVars

NextFuse == FinalScoreCall

SpecFuse == InitFuse /\ [][NextFuse]_vars

(***************************************************************************)
(* Claims about the weights, under SpecFuse.                               *)
(***************************************************************************)
\* a candidate whose semantic score exceeds its normalized lexical score was
\* scored with both pairs of weights
WeightMoved ==
    /\ ev.pc = "done"
    /\ FLess(ev.tfidf_score, ev.semantic_score)

\* C15 as stated: for s > l and d > 0 the fused score under the weights
\* (semantic_weight + d, tfidf_weight - d) is never smaller than under
\* (semantic_weight, tfidf_weight).
C15_NeverSmaller == WeightMoved => ~FLess(ev.shifted, ev.base)

\* the fused score in exact arithmetic, in units of 2^e
ExactFused(semantic_weight, semantic_score, tfidf_weight, tfidf_score, e) ==
    semantic_weight.m * semantic_score.m * 2^(semantic_weight.e + semantic_score.e - e)
    + tfidf_weight.m * tfidf_score.m * 2^(tfidf_weight.e + tfidf_score.e - e)

\* C15 amended: for s > l >= 0, d > 0 and weights that are not negative, the
\* fused score under the moved weights is larger in exact arithmetic, and as
\* computed it is smaller than under the original weights by at most the
\* rounding error of the three operations, a factor of 1 - 2^(2 - FloatBits).
C15_SmallerOnlyByRounding ==
    WeightMoved
        => /\ ExactFused(FAdd(ev.semantic_weight, ev.d), ev.semantic_score,
                         FSub(ev.tfidf_weight, ev.d), ev.tfidf_score,
                         0 - FloatBits - FloatExps - 2)
                > ExactFused(ev.semantic_weight, ev.semantic_score,
                             ev.tfidf_weight, ev.tfidf_score,
                             0 - FloatBits - FloatExps - 2)
           /\ LET e == Min(ev.shifted.e, ev.base.e)
              IN  Aligned(ev.shifted, e) * 2^FloatBits
                     >= Aligned(ev.base, e) * (2^FloatBits - 4)

\* a candidate whose computed score falls although its exact score rises
C15_Witness ==
    /\ WeightMoved
    /\ FLess(ev.shifted, ev.base)

(***************************************************************************)
(* Concurrent queries: two request threads call hybrid_search on one       *)
(* retriever whose corpus nobody changes.  Each action is one access to    *)
(* the shared collection or to the shared tfidf_cache; the test            *)
(* "term not in self.tfidf_cache" and the assignment that follows it are   *)
(* separate steps, and nothing in the code orders the two threads.         *)
(***************************************************************************)
Threads == {"t1", "t2"}

ThreadNew ==
    [pc |-> "idle", error |-> "none", query |-> <<>>, top_k |-> 0,
     cache0 |-> <<>>, corpus0 |-> <<>>,
     semantic_results |-> <<>>, items |-> <<>>, query_tokens |-> <<>>,
     i |-> 1, k |-> 1, score |-> 0, scores |-> <<>>, results |-> <<>>,
     raced |-> FALSE]

\* the corpora of the model: the chunk of rule '2', alone or with the chunk
\* of rule '11'
QueryCorpora ==
    {[alive |-> TRUE, items |-> IngestedItems(<<Rule2>>)],
     [alive |-> TRUE, items |-> IngestedItems(<<Rule2, Rule11>>)]}

\* the caches the threads may find: empty, or filled by a search made when
\* the corpus was the chunk of rule '2'
QueryCaches ==
    {<<>>} \cup
    {tfidf_search([alive |-> TRUE, items |-> IngestedItems(<<Rule2>>)],
                  <<>>, q, 1).cache : q \in Queries}

InitQueries ==
    /\ ct = CtIdle
    /\ collection \in QueryCorpora
    /\ tfidf_cache \in QueryCaches
    /\ last = NoOp
    /\ hist = HistInit
    /\ InitRefreshIdle
    /\ thr = [t \in Threads |-> ThreadNew]
    /\ ev = EvIdle
    /\ qa = QaIdle

\* a cache that answers every lookup with 0
CacheLookup_Zero(cache, term) == 0

\* idf = self.tfidf_cache[term]
CacheLookup(cache, term) == cache[term]

\* a thread that has used term k of document i goes on to the next term, the
\* next document, or the fusion
Advance(th, score) ==
    IF th.k < Len(th.query_tokens)
    THEN [th EXCEPT !.pc = "check", !.k = th.k + 1, !.score = score]
    ELSE IF th.i < Len(th.items)
    THEN [th EXCEPT !.pc = "check", !.i = th.i + 1, !.k = 1, !.score = 0,
                    !.scores = Append(th.scores, score)]
    ELSE [th EXCEPT !.pc = "fuse", !.scores = Append(th.scores, score)]

\* the thread is given a request: hybrid_search(query, top_k) is called
ThreadCall ==
    /\ \E t \in Threads, query \in Queries, top_k \in TopKs :
          /\ thr[t].pc = "idle"
          /\ thr' = [thr EXCEPT ![t] = [ThreadNew EXCEPT !.pc = "semantic",
                                                         !.query = query,
                                                         !.top_k = top_k,
                                                         !.cache0 = tfidf_cache,
                                                         !.corpus0 = collection.items]]
    /\ UNCHANGED <<ct, collection, tfidf_cache, last, hist, ev, qa>>
    /\ UNCHANGED refreshVars

\* semantic_results = self.semantic_search(query, top_k=top_k * 2)
ThreadSemantic ==
    /\ \E t \in Threads :
          /\ thr[t].pc = "semantic"
          /\ LET r == semantic_search(collection, thr[t].query, thr[t].top_k * 2)
             IN  thr' = [thr EXCEPT ![t].pc = IF r.error = "none" THEN "get" ELSE "done",
                                    ![t].error = r.error,
                                    ![t].semantic_results = r.results]
    /\ UNCHANGED <<ct, collection, tfidf_cache, last, hist, ev, qa>>
    /\ UNCHANGED refreshVars

\* tfidf_search: all_docs = self.collection.get(); query_tokens
ThreadGet ==
    /\ \E t \in Threads :
          /\ thr[t].pc = "get"
          /\ LET query_tokens == _tokenize(Lower(thr[t].query))
             IN  thr' = [thr EXCEPT
                           ![t].pc = IF ~collection.alive THEN "done"
                                     ELSE IF collection.items = <<>> THEN "fuse"
                                     ELSE IF query_tokens = <<>> THEN "fuse"
                                     ELSE "check",
                           ![t].error = IF collection.alive THEN "none" ELSE "StoreError",
                           ![t].items = collection.items,
                           ![t].query_tokens = query_tokens,
                           ![t].scores = IF query_tokens = <<>>
                                         THEN [i \in 1..Len(collection.items) |-> 0]
                                         ELSE <<>>]
    /\ UNCHANGED <<ct, collection, tfidf_cache, last, hist, ev, qa>>
    /\ UNCHANGED refreshVars

\* _calculate_tfidf_score: if term not in self.tfidf_cache
ThreadCheck ==
    /\ \E t \in Threads :
          /\ thr[t].pc = "check"
          /\ thr' = [thr EXCEPT ![t].pc =
                        IF thr[t].query_tokens[thr[t].k] \in DOMAIN tfidf_cache
                        THEN "read" ELSE "write"]
    /\ UNCHANGED <<ct, collection, tfidf_cache, last, hist, ev, qa>>
    /\ UNCHANGED refreshVars

\* _calculate_tfidf_score: doc_count, idf, self.tfidf_cache[term] = idf; the
\* thread has raced when the term was cached by another thread since the test
ThreadWrite ==
    /\ \E t \in Threads :
          /\ thr[t].pc = "write"
          /\ LET term == thr[t].query_tokens[thr[t].k]
                 all_docs == [i \in 1..Len(thr[t].items) |-> thr[t].items[i].document]
             IN  tfidf_cache' = CachePut(tfidf_cache, term, ComputeIdf(term, all_docs))
          /\ thr' = [thr EXCEPT
                        ![t].pc = "read",
                        ![t].raced = @ \/ thr[t].query_tokens[thr[t].k] \in DOMAIN tfidf_cache]
    /\ UNCHANGED <<ct, collection, last, hist, ev, qa>>
    /\ UNCHANGED refreshVars

\* _calculate_tfidf_score: idf = self.tfidf_cache[term]; score += tf * idf
ThreadRead ==
    /\ \E t \in Threads :
          /\ thr[t].pc = "read"
          /\ LET th == thr[t]
                 term == th.query_tokens[th.k]
                 doc_tokens == _tokenize(Lower(th.items[th.i].document))
                 idf == CacheLookup(tfidf_cache, term)
             IN  thr' = [thr EXCEPT ![t] = Advance(th, th.score + TfIdf(term, doc_tokens, idf))]
    /\ UNCHANGED <<ct, collection, tfidf_cache, last, hist, ev, qa>>
    /\ UNCHANGED refreshVars

\* the end of tfidf_search (sort, cut to top_k * 2) and the fusion of
\* hybrid_search (combined, final scores, sort, cut to top_k)
ThreadFuse ==
    /\ \E t \in Threads :
          /\ thr[t].pc = "fuse"
          /\ LET th == thr[t]
                 scored == [i \in 1..Len(th.scores) |->
                               [content |-> th.items[i].document,
                                metadata |-> Metadata(th.items[i]),
                                tfidf_score |-> th.scores[i],
                                method |-> "tfidf"]]
                 tfidf_results == Slice(SortDesc(scored, th.scores), 0, th.top_k * 2)
                 final_results == FinalResults(Combine(th.semantic_results, tfidf_results),
                                               default_semantic_weight,
                                               default_tfidf_weight)
                 keys == [p \in 1..Len(final_results) |-> final_results[p].final_score]
             IN  thr' = [thr EXCEPT ![t].pc = "done",
                                    ![t].results = Slice(SortDesc(final_results, keys),
                                                         0, th.top_k)]
    /\ UNCHANGED <<ct, collection, tfidf_cache, last, hist, ev, qa>>
    /\ UNCHANGED refreshVars

NextQueries ==
    \/ ThreadCall
    \/ ThreadSemantic
    \/ ThreadGet
    \/ ThreadCheck
    \/ ThreadWrite
    \/ ThreadRead
    \/ ThreadFuse

SpecQueries == InitQueries /\ [][NextQueries]_vars

(***************************************************************************)
(* Claims about repeated and concurrent queries, under SpecQueries.        *)
(***************************************************************************)
ThreadDone(t) == thr[t].pc = "done" /\ thr[t].error = "none"

\* C16: two hybrid_search calls with the same query and top_k (and the
\* default weights) on the unchanged corpus return the same list: the same
\* chunks in the same order with the same scores, whether the call filled the
\* IDF cache or found it filled.
C16_RepeatedCallsAgree ==
    \A t1, t2 \in Threads :
        (ThreadDone(t1) /\ ThreadDone(t2)
            /\ thr[t1].query = thr[t2].query /\ thr[t1].top_k = thr[t2].top_k)
            => thr[t1].results = thr[t2].results

\* the second call was made after the first had returned and had filled the
\* cache; both returned the same non-empty list
C16_Witness ==
    /\ ThreadDone("t1") /\ ThreadDone("t2")
    /\ thr["t1"].query = thr["t2"].query /\ thr["t1"].top_k = thr["t2"].top_k
    /\ thr["t1"].cache0 = <<>>
    /\ DOMAIN thr["t2"].cache0 = DOMAIN tfidf_cache
    /\ thr["t2"].cache0 # <<>>
    /\ thr["t1"].results # <<>>
    /\ thr["t1"].results = thr["t2"].results

\* what hybrid_search returns for the call of thread t when it runs alone,
\* from the cache the thread found
ResultAlone(t) ==
    hybrid_search([alive |-> TRUE, items |-> thr[t].corpus0], thr[t].cache0,
                  thr[t].query, thr[t].top_k,
                  default_semantic_weight, default_tfidf_weight).results

\* C17: the queries leave the corpus as they found it, and every
\* hybrid_search call returns, whatever the interleaving with the other
\* call, the list it returns when it runs alone.
C17_ConcurrentAsAlone ==
    \A t \in Threads :
        /\ thr[t].pc # "idle" => (collection.alive /\ collection.items = thr[t].corpus0)
        /\ ThreadDone(t) => thr[t].results = ResultAlone(t)

\* both calls found the term missing and both wrote it; both returned what
\* they return alone
C17_Witness ==
    /\ ThreadDone("t1") /\ ThreadDone("t2")
    /\ thr["t1"].raced \/ thr["t2"].raced
    /\ thr["t1"].results # <<>>
    /\ thr["t1"].results = ResultAlone("t1")
    /\ thr["t2"].results = ResultAlone("t2")

(***************************************************************************)
(* The evaluation metrics of ClaudeQASystem (src/rag/claude_qa.py).        *)
(* Metrics are in thousandths.                                             *)
(***************************************************************************)
stop_words ==
    {<<"t", "h", "e">>, <<"a">>, <<"a", "n">>,
     <<"a", "n", "d">>, <<"o", "r">>, <<"b", "u", "t">>,
     <<"i", "n">>, <<"o", "n">>, <<"a", "t">>,
     <<"t", "o">>, <<"f", "o", "r">>, <<"i", "s">>,
     <<"a", "r", "e">>, <<"w", "a", "s">>, <<"w", "e", "r", "e">>,
     <<"b", "e">>, <<"b", "e", "e", "n">>, <<"b", "e", "i", "n", "g">>,
     <<"h", "a", "v", "e">>, <<"h", "a", "s">>, <<"h", "a", "d">>}

\* the words of a sequence, as a set
SetOf(words) == {words[i] : i \in 1..Len(words)}

\* a faithfulness that counts the stop words of the answer too
_calculate_faithfulness_KeepStopWords(contexts, answer) ==
    LET context_text == Lower(Join([i \in 1..Len(contexts) |-> contexts[i].content]))
        answer_words == SetOf(Split(Lower(answer)))
        grounded_words == Cardinality({word \in answer_words :
                                          IsSubstring(word, context_text)})
        faithfulness == IF answer_words # {}
                        THEN (1000 * grounded_words) \div Cardinality(answer_words)
                        ELSE 0
    IN  Min(faithfulness, 1000)

\* _calculate_faithfulness(contexts, answer)
_calculate_faithfulness(contexts, answer) ==
    LET context_text == Lower(Join([i \in 1..Len(contexts) |-> contexts[i].content]))
        answer_lower == Lower(answer)
        answer_words == SetOf(Split(answer_lower)) \ stop_words
        grounded_words == Cardinality({word \in answer_words :
                                          IsSubstring(word, context_text)})
        faithfulness == IF answer_words # {}
                        THEN (1000 * grounded_words) \div Cardinality(answer_words)
                        ELSE 0
    IN  Min(faithfulness, 1000)

(***************************************************************************)
(* _calculate_faithfulness on its own: every answer of at most             *)
(* MaxAnswerWords words of the vocabulary and every list of at most        *)
(* MaxContexts retrieved chunks.                                           *)
(***************************************************************************)
MaxAnswerWords == 2

MaxContexts == 2

\* the words answers are made of: stop words ("a", "At", "be"), words of the
\* chunks and words that are in no chunk
AnswerVocabulary ==
    {<<"a">>, <<"A", "t">>, <<"b", "e">>, <<"b">>, <<"A", "b">>, <<"c", "a", "b">>,
     <<"b", ".">>, <<"d">>}

\* the contents of the chunks that may be retrieved
ContextContents == {<<"c", " ", "c", " ", "a">>, <<"b", " ", "A", "b", ".">>, <<"C", "a", "b">>}

\* the sequences of at most n elements of S
RECURSIVE SeqsUpTo(_, _)
SeqsUpTo(S, n) ==
    IF n = 0 THEN {<<>>}
    ELSE LET shorter == SeqsUpTo(S, n - 1)
         IN  shorter \cup {Append(q, x) : q \in {r \in shorter : Len(r) = n - 1}, x \in S}

\* the answers: the words joined by blanks, or by newlines behind a leading tab
Answers ==
    {Join(ws) : ws \in SeqsUpTo(AnswerVocabulary, MaxAnswerWords)}
    \cup {<<"\t">> \o ws[1] \o <<"\n">> \o ws[2] :
             ws \in {q \in SeqsUpTo(AnswerVocabulary, 2) : Len(q) = 2}}
    \cup {<<" ">>}

ContextLists ==
    {[i \in 1..Len(cs) |-> [content |-> cs[i]]] :
        cs \in SeqsUpTo(ContextContents, MaxContexts)}

InitFaithfulness ==
    /\ ct = CtIdle
    /\ collection = EmptyCollection
    /\ tfidf_cache = <<>>
    /\ last = NoOp
    /\ hist = HistInit
    /\ InitRefreshIdle
    /\ thr = ThrIdle
    /\ qa = QaIdle
    /\ ev \in {[fn |-> "faithfulness", pc |-> "call", contexts |-> cs, answer |-> a,
                result |-> 0] : cs \in ContextLists, a \in Answers}

\* faithfulness = self._calculate_faithfulness(contexts, answer)
FaithfulnessCall ==
    /\ ev.pc = "call"
    /\ ev' = [ev EXCEPT !.pc = "done",
                        !.result = _calculate_faithfulness(ev.contexts, ev.answer)]
    /\ UNCHANGED <<ct, collection, tfidf_cache, last, hist, thr, qa>>
    /\ UNCHANGED refreshVars

NextFaithfulness == FaithfulnessCall

SpecFaithfulness == InitFaithfulness /\ [][NextFaithfulness]_vars

(***************************************************************************)
(* Claims about faithfulness, under SpecFaithfulness.                      *)
(***************************************************************************)
\* the content words of the answer of the call: its blank-separated words,
\* lower-cased, without the stop words
ContentWords == SetOf(Split(Lower(ev.answer))) \ stop_words

\* the content words found, as they are, in the lower-cased text of the
\* retrieved chunks
GroundedWords ==
    {w \in ContentWords :
        \E i \in 1..Len(ev.contexts) : IsSubstring(w, Lower(ev.contexts[i].content))}

\* C18: for an answer that has content words, faithfulness is 1.0 when every
\* content word is found in the retrieved context and 0.0 when none is; for
\* every answer and context it lies between 0 and 1.
C18_FaithfulnessEnds ==
    ev.pc = "done"
        => /\ (ContentWords # {} /\ GroundedWords = ContentWords) => ev.result = 1000
           /\ (ContentWords # {} /\ GroundedWords = {}) => ev.result = 0
           /\ ev.result \in 0..1000

\* an answer of a stop word and a content word, written in another case
\* than the chunks, the content word found: faithfulness 1.0
C18_Witness ==
    /\ ev.pc = "done"
    /\ ev.result = 1000
    /\ Cardinality(ContentWords) = 1
    /\ SetOf(Split(Lower(ev.answer))) \cap stop_words # {}
    /\ ev.answer # Lower(ev.answer)

(***************************************************************************)
(* _calculate_context_precision, in millionths.                            *)
(***************************************************************************)
\* dict.get(key, default)
Get(ctx, key, default) == IF key \in DOMAIN ctx THEN ctx[key] ELSE default

\* the loop over the adjacent pairs from position i with a penalty for
\* every pair that does not fall, equal scores included
RECURSIVE PrecisionLoop_TiesPenalized(_, _, _)
PrecisionLoop_TiesPenalized(scores, i, precision) ==
    IF i > Len(scores) - 1 THEN precision
    ELSE PrecisionLoop_TiesPenalized(scores, i + 1,
                                     IF scores[i] <= scores[i + 1]
                                     THEN (precision * 8) \div 10
                                     ELSE precision)

\* for i in range(len(scores) - 1): if scores[i] < scores[i + 1]:
\* precision *= 0.8
RECURSIVE PrecisionLoop(_, _, _)
PrecisionLoop(scores, i, precision) ==
    IF i > Len(scores) - 1 THEN precision
    ELSE PrecisionLoop(scores, i + 1,
                       IF scores[i] < scores[i + 1]
                       THEN (precision * 8) \div 10
                       ELSE precision)

\* _calculate_context_precision(contexts)
_calculate_context_precision(contexts) ==
    IF contexts = <<>> THEN 0
    ELSE LET scores == [i \in 1..Len(contexts) |-> Get(contexts[i], "final_score", 0)]
         IN  PrecisionLoop(scores, 1, 1000000)

(***************************************************************************)
(* _calculate_context_precision on its own: on every list hybrid_search    *)
(* returns for the corpora, queries, top_k and weights of the model, and   *)
(* on every list of at most MaxRanking contexts a caller of                *)
(* evaluate_answer may put together.                                       *)
(***************************************************************************)
MaxRanking == 4

\* the contexts a caller may pass: final scores that fall, rise or repeat,
\* and a context without a final_score
CallerContexts ==
    {[final_score |-> 0], [final_score |-> 300000], [final_score |-> 650000],
     [content |-> <<"c">>]}

\* (semantic_weight, tfidf_weight) in thousandths
WeightPairs == {<<700, 300>>, <<300, 700>>, <<1000, 0>>, <<0, 1000>>}

\* what hybrid_search returns on the corpora of the model
HybridRankings ==
    {hybrid_search(coll, <<>>, query, top_k, w[1], w[2]).results :
        coll \in InitialCollections, query \in Queries, top_k \in TopKs,
        w \in WeightPairs}

InitPrecision ==
    /\ ct = CtIdle
    /\ collection = EmptyCollection
    /\ tfidf_cache = <<>>
    /\ last = NoOp
    /\ hist = HistInit
    /\ InitRefreshIdle
    /\ thr = ThrIdle
    /\ qa = QaIdle
    /\ ev \in {[fn |-> "context_precision", pc |-> "call", from |-> "hybrid_search",
                contexts |-> cs, result |-> 0] : cs \in HybridRankings}
              \cup
              {[fn |-> "context_precision", pc |-> "call", from |-> "caller",
                contexts |-> cs, result |-> 0] :
                   cs \in SeqsUpTo(CallerContexts, MaxRanking)}

\* context_precision = self._calculate_context_precision(contexts)
ContextPrecisionCall ==
    /\ ev.pc = "call"
    /\ ev' = [ev EXCEPT !.pc = "done",
                        !.result = _calculate_context_precision(ev.contexts)]
    /\ UNCHANGED <<ct, collection, tfidf_cache, last, hist, thr, qa>>
    /\ UNCHANGED refreshVars

NextPrecision == ContextPrecisionCall

SpecPrecision == InitPrecision /\ [][NextPrecision]_vars

(***************************************************************************)
(* Claims about context precision, under SpecPrecision.                    *)
(***************************************************************************)
\* the adjacent pairs of the ranking whose final score rises
RisingPairs ==
    {i \in 1..(Len(ev.contexts) - 1) :
        Get(ev.contexts[i], "final_score", 0) < Get(ev.contexts[i + 1], "final_score", 0)}

\* 0.8 to the power n, in millionths
RECURSIVE PowerOfPenalty(_)
PowerOfPenalty(n) == IF n = 0 THEN 1000000 ELSE (PowerOfPenalty(n - 1) * 8) \div 10

\* C19 as stated: context precision is 1.0 times 0.8 for every adjacent pair
\* whose final score rises, for every ranking; for every non-empty list that
\* hybrid_search returns it is 1.0.
C19_PenaltyPerRisingPair ==
    ev.pc = "done"
        => /\ ev.result = PowerOfPenalty(Cardinality(RisingPairs))
           /\ (ev.from = "hybrid_search" /\ ev.contexts # <<>>) => ev.result = 1000000

\* C19 amended: for a non-empty ranking context precision is 1.0 times 0.8
\* for every adjacent pair whose final score rises, and 0.0 for the empty
\* ranking; for every non-empty list that hybrid_search returns it is 1.0.
C19_PenaltyPerRisingPairNonEmpty ==
    ev.pc = "done"
        => /\ ev.contexts # <<>> => ev.result = PowerOfPenalty(Cardinality(RisingPairs))
           /\ ev.contexts = <<>> => ev.result = 0
           /\ (ev.from = "hybrid_search" /\ ev.contexts # <<>>) => ev.result = 1000000

\* a list returned by hybrid_search with falling and with equal final
\* scores: precision 1.0
C19_Witness ==
    /\ ev.pc = "done"
    /\ ev.from = "hybrid_search"
    /\ \E i, j \in 1..(Len(ev.contexts) - 1) :
          /\ ev.contexts[i].final_score > ev.contexts[i + 1].final_score
          /\ ev.contexts[j].final_score = ev.contexts[j + 1].final_score
    /\ ev.result = 1000000

(***************************************************************************)
(* ClaudeQASystem.answer_question, step by step: the retrieval, the call   *)
(* of the language model, the two log rows and the result.  Amounts of     *)
(* money are in millionths of a dollar; response_time_ms, a reading of     *)
(* the clock, is left out of the rows and of the metrics.                  *)
(***************************************************************************)
NotFoundAnswer ==
    <<"I couldn't find relevant information in the rules database to answer your question. Please try rephrasing or ask a different question.">>

\* f"Error communicating with Claude API: {str(e)}"
ErrorAnswer(e) == <<"Error communicating with Claude API: ", e>>

\* count_tokens: the length of the encoding when tiktoken is there (one
\* token per character stands for cl100k_base), len(text) // 4 otherwise
count_tokens(tokenizer, text) == IF tokenizer THEN Len(text) ELSE Len(text) \div 4

\* calculate_cost: $3 and $15 for a million tokens
calculate_cost(input_tokens, output_tokens) == input_tokens * 3 + output_tokens * 15

\* build_system_prompt: a fixed text
build_system_prompt == <<"C", "i", "t", "e", ".">>

\* build_user_prompt: for each context its rule, title and content, then
\* the question
RECURSIVE ContextParts(_, _, _)
ContextParts(contexts, i, acc) ==
    IF i > Len(contexts) THEN acc
    ELSE ContextParts(contexts, i + 1,
                      acc \o contexts[i].metadata.rule_id \o <<":">>
                          \o contexts[i].metadata.title \o <<"\n">>
                          \o contexts[i].content \o <<"\n">>)

build_user_prompt(question, contexts) == ContextParts(contexts, 1, <<>>) \o question

\* a test that never finds the contexts empty
NoContexts_Never(contexts) == FALSE

\* if not contexts:
NoContexts(contexts) == contexts = <<>>

\* what the Anthropic client may do: answer with or without a usage
\* record, or raise
LLMOutcomes ==
    {[kind |-> "ok", text |-> <<"R", "u", "l", "e", " ", "1", ".">>, usage |-> TRUE,
      input_tokens |-> 9, output_tokens |-> 3],
     [kind |-> "ok", text |-> <<"R", "u", "l", "e", " ", "1", ".">>, usage |-> FALSE,
      input_tokens |-> 0, output_tokens |-> 0],
     [kind |-> "raise", text |-> <<>>, usage |-> FALSE,
      input_tokens |-> 0, output_tokens |-> 0]}

Unbound == 0 - 1

NoAnswer == [answer |-> <<>>, contexts |-> <<>>, metrics |-> <<>>, cost |-> 0]

QaNew(question, top_k, stream, tokenizer) ==
    [pc |-> "call", question |-> question, top_k |-> top_k, stream |-> stream,
     tokenizer |-> tokenizer, contexts |-> <<>>, llm_calls |-> 0,
     response_text |-> <<>>, input_tokens |-> 0, output_tokens |-> Unbound,
     total_tokens |-> 0, cost |-> 0, query_id |-> 0, raised |-> "none",
     db_errors |-> 0,
     query_history |-> <<>>, api_usage |-> <<>>, result |-> NoAnswer]

InitAnswer ==
    /\ ct = CtIdle
    /\ InitRetriever
    /\ InitRefreshIdle
    /\ thr = ThrIdle
    /\ ev = EvIdle
    /\ qa \in {QaNew(question, top_k, stream, tokenizer) :
                  question \in Queries, top_k \in TopKs,
                  stream \in BOOLEAN, tokenizer \in BOOLEAN}

\* contexts = self.retriever.hybrid_search(question, top_k=top_k), the
\* return on no contexts, the prompts and their token count
AnswerRetrieve ==
    /\ qa.pc = "call"
    /\ LET r == hybrid_search(collection, tfidf_cache, qa.question, qa.top_k,
                              default_semantic_weight, default_tfidf_weight)
           prompt == build_system_prompt \o build_user_prompt(qa.question, r.results)
       IN  /\ tfidf_cache' = r.cache
           /\ qa' = IF r.error # "none"
                    THEN [qa EXCEPT !.pc = "raised", !.raised = r.error]
                    ELSE IF NoContexts(r.results)
                    THEN [qa EXCEPT !.pc = "returned",
                                    !.contexts = r.results,
                                    !.result = [answer |-> NotFoundAnswer,
                                                contexts |-> <<>>,
                                                metrics |-> <<>>,
                                                cost |-> 0]]
                    ELSE [qa EXCEPT !.pc = "llm",
                                    !.contexts = r.results,
                                    !.input_tokens = count_tokens(qa.tokenizer, prompt)]
    /\ UNCHANGED <<ct, collection, last, hist, thr, ev>>
    /\ UNCHANGED refreshVars

\* the try block: _stream_response or messages.create, the token usage of
\* the response, and the return on an exception
AnswerLLM ==
    /\ qa.pc = "llm"
    /\ \E out \in LLMOutcomes :
          qa' = IF out.kind = "raise"
                THEN [qa EXCEPT !.pc = "returned",
                                !.llm_calls = @ + 1,
                                !.result = [answer |-> ErrorAnswer("APIError"),
                                            contexts |-> qa.contexts,
                                            metrics |-> <<>>,
                                            cost |-> 0]]
                ELSE IF qa.stream
                THEN [qa EXCEPT !.pc = "metrics",
                                !.llm_calls = @ + 1,
                                !.response_text = out.text]
                ELSE IF out.usage
                THEN [qa EXCEPT !.pc = "metrics",
                                !.llm_calls = @ + 1,
                                !.response_text = out.text,
                                !.input_tokens = out.input_tokens,
                                !.output_tokens = out.output_tokens]
                ELSE [qa EXCEPT !.pc = "metrics",
                                !.llm_calls = @ + 1,
                                !.response_text = out.text,
                                !.output_tokens = count_tokens(qa.tokenizer, out.text)]
    /\ UNCHANGED <<ct, collection, tfidf_cache, last, hist, thr, ev>>
    /\ UNCHANGED refreshVars

\* total_tokens = input_tokens + output_tokens, with output_tokens a name
\* that may never have been bound; cost = self.calculate_cost(...)
AnswerMetrics ==
    /\ qa.pc = "metrics"
    /\ qa' = IF qa.output_tokens = Unbound
             THEN [qa EXCEPT !.pc = "raised", !.raised = "UnboundLocalError"]
             ELSE [qa EXCEPT !.pc = "log_query",
                             !.total_tokens = qa.input_tokens + qa.output_tokens,
                             !.cost = calculate_cost(qa.input_tokens, qa.output_tokens)]
    /\ UNCHANGED <<ct, collection, tfidf_cache, last, hist, thr, ev>>
    /\ UNCHANGED refreshVars

\* query_id = self.db.log_query(...): the row and its id, or -1 when the
\* database fails
AnswerLogQuery ==
    /\ qa.pc = "log_query"
    /\ \E db_ok \in BOOLEAN :
          qa' = IF db_ok
                THEN [qa EXCEPT !.pc = "log_api_usage",
                                !.query_id = Len(qa.query_history) + 1,
                                !.query_history =
                                    Append(@, [query_text |-> qa.question,
                                               query_type |-> "rules",
                                               retrieved_contexts |->
                                                   [i \in 1..Len(qa.contexts) |->
                                                       qa.contexts[i].content],
                                               response_text |-> qa.response_text,
                                               tokens_used |-> qa.total_tokens,
                                               cost_usd |-> qa.cost])]
                ELSE [qa EXCEPT !.pc = "log_api_usage", !.query_id = 0 - 1,
                                !.db_errors = @ + 1]
    /\ UNCHANGED <<ct, collection, tfidf_cache, last, hist, thr, ev>>
    /\ UNCHANGED refreshVars

\* self.db.log_api_usage(...): the row, or nothing when the database fails
AnswerLogApiUsage ==
    /\ qa.pc = "log_api_usage"
    /\ \E db_ok \in BOOLEAN :
          qa' = IF db_ok
                THEN [qa EXCEPT !.pc = "result",
                                !.api_usage =
                                    Append(@, [api_name |-> "anthropic",
                                               operation |-> "chat",
                                               tokens_input |-> qa.input_tokens,
                                               tokens_output |-> qa.output_tokens,
                                               cost_usd |-> qa.cost])]
                ELSE [qa EXCEPT !.pc = "result", !.db_errors = @ + 1]
    /\ UNCHANGED <<ct, collection, tfidf_cache, last, hist, thr, ev>>
    /\ UNCHANGED refreshVars

\* rules_updated = self.db.get_rules_last_updated(), which raises when the
\* database fails, and the result
AnswerResult ==
    /\ qa.pc = "result"
    /\ \E db_ok \in BOOLEAN :
          qa' = IF db_ok
                THEN [qa EXCEPT !.pc = "returned",
                                !.result =
                                    [answer |-> <<qa.response_text>>,
                                     contexts |-> qa.contexts,
                                     metrics |-> [input_tokens |-> qa.input_tokens,
                                                  output_tokens |-> qa.output_tokens,
                                                  total_tokens |-> qa.total_tokens,
                                                  cost_usd |-> qa.cost,
                                                  contexts_retrieved |-> Len(qa.contexts),
                                                  query_id |-> qa.query_id],
                                     cost |-> qa.cost]]
                ELSE [qa EXCEPT !.pc = "raised", !.raised = "DatabaseError",
                                !.db_errors = @ + 1]
    /\ UNCHANGED <<ct, collection, tfidf_cache, last, hist, thr, ev>>
    /\ UNCHANGED refreshVars

NextAnswer ==
    \/ AnswerRetrieve
    \/ AnswerLLM
    \/ AnswerMetrics
    \/ AnswerLogQuery
    \/ AnswerLogApiUsage
    \/ AnswerResult

SpecAnswer == InitAnswer /\ [][NextAnswer]_vars

(***************************************************************************)
(* Claims about answer_question, under SpecAnswer.                         *)
(***************************************************************************)
\* hybrid_search has returned, and returned no result
RetrievedNothing == qa.pc \notin {"call", "raised"} /\ qa.contexts = <<>>

\* C20: when hybrid_search returns zero results answer_question returns the
\* 'not found' answer, which is not an error text, with contexts = [] and
\* cost = 0.0, without a call of the language model and without a query or
\* API usage row.
C20_NotFoundOutcome ==
    RetrievedNothing
        => /\ qa.pc = "returned"
           /\ qa.result.answer = NotFoundAnswer
           /\ qa.result.answer[1] # ErrorAnswer("APIError")[1]
           /\ qa.result.contexts = <<>>
           /\ qa.result.cost = 0
           /\ qa.llm_calls = 0
           /\ qa.query_history = <<>>
           /\ qa.api_usage = <<>>

\* answer_question has returned on an empty index
C20_Witness ==
    /\ RetrievedNothing
    /\ qa.pc = "returned"
    /\ collection.items = <<>>
    /\ qa.result.answer = NotFoundAnswer

(***************************************************************************)
(* The index on its own: add_documents and clear_collection called one     *)
(* after the other on one retriever, with document lists that repeat a     *)
(* rule_id.  A list of more than batch_size chunks reaches the store in    *)
(* several collection.add calls, as the lists of several add_documents     *)
(* calls do.                                                               *)
(***************************************************************************)
MaxIndexOps == 3

\* the add_documents calls of the model, those whose list repeats a rule_id
\* and one that cuts a stored rule into other chunks
IndexCalls ==
    AddCalls \cup
    {<<(<<Rule2, Rule2Revised>>), DefaultChunkSize>>,
     <<(<<Rule2, Rule2>>), DefaultOverlap + 1>>,
     <<(<<Rule2>>), DefaultOverlap + 1>>}

InitIndex ==
    /\ ct = CtIdle
    /\ collection = EmptyCollection
    /\ tfidf_cache = <<>>
    /\ last = NoOp
    /\ hist = HistInit
    /\ InitRefreshIdle
    /\ AuxIdle

\* retriever.add_documents(documents, chunk_size)
IndexAddDocuments ==
    /\ hist.ops < MaxIndexOps
    /\ \E c \in IndexCalls, outcome \in EmbedOutcomes :
          LET r == AddDocuments(collection, c[1], c[2], outcome)
          IN  /\ collection' = r.coll
              /\ last' = [NoOp EXCEPT !.op = "add_documents",
                                      !.error = r.error,
                                      !.before = collection.items,
                                      !.outcome = outcome,
                                      !.submitted = Submitted(c[1], c[2])]
    /\ hist' = [ops |-> hist.ops + 1, cleared |-> FALSE]
    /\ UNCHANGED <<ct, tfidf_cache>>
    /\ UNCHANGED refreshVars
    /\ UNCHANGED auxVars

\* retriever.clear_collection()
IndexClearCollection ==
    /\ hist.ops < MaxIndexOps
    /\ collection' = clear_collection(collection)
    /\ last' = [NoOp EXCEPT !.op = "clear_collection", !.before = collection.items]
    /\ hist' = [ops |-> hist.ops + 1,
                cleared |-> hist.cleared \/ collection.items # <<>>]
    /\ UNCHANGED <<ct, tfidf_cache>>
    /\ UNCHANGED refreshVars
    /\ UNCHANGED auxVars

NextIndex ==
    \/ IndexAddDocuments
    \/ IndexClearCollection

SpecIndex == InitIndex /\ [][NextIndex]_vars

(***************************************************************************)
(* Claims about the stored chunks, under SpecIndex.                        *)
(***************************************************************************)
\* C21: after any sequence of add_documents and clear_collection calls no
\* two chunks stored in the index have the same rule_id and chunk_index.
C21_IdentitiesDistinct ==
    \A i, j \in 1..Len(collection.items) :
        (/\ collection.items[i].rule_id = collection.items[j].rule_id
         /\ collection.items[i].chunk_index = collection.items[j].chunk_index)
            => i = j

\* an add_documents call on a rule that is stored already has returned
\* without an error and left some of its chunks, not all
C21_Witness ==
    /\ last.op = "add_documents"
    /\ last.error = "none"
    /\ Len(collection.items) > Len(last.before)
    /\ Len(collection.items) - Len(last.before) < last.submitted

(***************************************************************************)
(* The windows of chunk_text, under SpecChunk.                             *)
(***************************************************************************)
\* the start of window i (from 0) and the window words[start : start + C]
WindowStart(i) == i * (ct.chunk_size - ct.overlap)

Window(i) ==
    Join([k \in 1..(Min(WindowStart(i) + ct.chunk_size, ct.nwords) - WindowStart(i)) |->
             CtWords[WindowStart(i) + k]])

\* the windows whose start is below the word count
WindowsBelow == {i \in 0..ct.nwords : WindowStart(i) < ct.nwords}

\* C22: for 0 <= O < C, chunk_text returns without error the windows
\* words[i*(C-O) : i*(C-O)+C] for i = 0, 1, ... while the start is below the
\* word count, the trailing partial window included, none of them empty; an
\* empty or whitespace-only text gives the empty list.
C22_WindowsByStep ==
    (ChunkDone /\ ct.overlap < ct.chunk_size)
        => /\ ct.result.error = "none"
           /\ Len(ct.result.chunks) = Cardinality(WindowsBelow)
           /\ \A k \in 1..Len(ct.result.chunks) :
                 /\ ct.result.chunks[k] = Window(k - 1)
                 /\ ct.result.chunks[k] # <<>>
           /\ ct.nwords = 0 => ct.result.chunks = <<>>

\* an untidy text of five words cut with an overlap into windows of three
\* words and a trailing window of one
C22_Witness ==
    /\ ChunkDone
    /\ ct.nwords = 5 /\ ct.chunk_size = 3 /\ ct.overlap = 1
    /\ ct.text # Join(CtWords)
    /\ ct.result.chunks = <<Join(<<(<<"a">>), (<<"b">>), (<<"c">>)>>),
                            Join(<<(<<"c">>), (<<"d">>), (<<"e">>)>>),
                            <<"e">>>>

(***************************************************************************)
(* Claims about the scores of hybrid_search, under Spec.                   *)
(***************************************************************************)
\* max_tfidf of the last hybrid_search
LastMaxTfidf == MaxTfidf(last.tfidf_results)

\* the chunk (content, rule_id, chunk_index) of one result
ChunkOf(result) == <<result.content, Identity(result.metadata)>>

\* C23: every candidate's lexical score is the TF-IDF score of its chunk
\* divided by the maximum TF-IDF score of the batch, 0 when that maximum is
\* 0; every normalized score lies in [0, 1], and when some score is positive
\* the candidate of the top lexical result has normalized score 1.
C23_LexicalNormalized ==
    HybridDone
        => /\ \A p \in 1..Len(LastCombined) :
                 /\ LastCombined[p].tfidf_score >= 0
                 /\ LastCombined[p].tfidf_score <= 1000
                 /\ \A k \in 1..Len(last.tfidf_results) :
                       ChunkOf(last.tfidf_results[k]) = ChunkOf(LastCombined[p])
                           => LastCombined[p].tfidf_score
                                = (IF LastMaxTfidf > 0
                                   THEN (last.tfidf_results[k].tfidf_score * 1000)
                                            \div LastMaxTfidf
                                   ELSE 0)
           /\ (last.tfidf_results # <<>> /\ LastMaxTfidf > 0)
                 => \E p \in 1..Len(LastCombined) :
                       /\ ChunkOf(LastCombined[p]) = ChunkOf(last.tfidf_results[1])
                       /\ LastCombined[p].tfidf_score = 1000

(***************************************************************************)
(* _calculate_tfidf_score on its own: one pass of the loop of tfidf_search *)
(* for one stored chunk, with queries that repeat a term.                  *)
(***************************************************************************)
MaxQueryTerms == 3

QueryVocabulary == {<<"a">>, <<"B">>, <<"c">>}

\* the queries: at most MaxQueryTerms words joined by blanks
QueryTexts == {Join(ws) : ws \in SeqsUpTo(QueryVocabulary, MaxQueryTerms)}

\* all_docs['documents'] of the model: chunk texts as chunk_text cuts them,
\* one of them without a token
ScoredCorpora ==
    {<<(<<"c", " ", "a">>), (<<"b", " ", "A", "b", ".">>), (<<".">>)>>,
     <<(<<"a", " ", "a", " ", "c">>), (<<"b">>)>>}

InitScore ==
    /\ ct = CtIdle
    /\ collection = EmptyCollection
    /\ tfidf_cache = <<>>
    /\ last = NoOp
    /\ hist = HistInit
    /\ InitRefreshIdle
    /\ thr = ThrIdle
    /\ qa = QaIdle
    /\ ev \in {e \in [fn : {"tfidf_score"}, pc : {"call"}, query : QueryTexts,
                      all_docs : ScoredCorpora, i : 1..3, result : {0}] :
                   e.i <= Len(e.all_docs)}

\* doc_tokens = self._tokenize(doc.lower());
\* score = self._calculate_tfidf_score(query_tokens, doc_tokens, all_docs)
TfidfScoreCall ==
    /\ ev.pc = "call"
    /\ LET r == _calculate_tfidf_score(_tokenize(Lower(ev.query)),
                                       _tokenize(Lower(ev.all_docs[ev.i])),
                                       ev.all_docs, tfidf_cache)
       IN  /\ ev' = [ev EXCEPT !.pc = "done", !.result = r.score]
           /\ tfidf_cache' = r.cache
    /\ UNCHANGED <<ct, collection, last, hist, thr, qa>>
    /\ UNCHANGED refreshVars

NextScore == TfidfScoreCall

SpecScore == InitScore /\ [][NextScore]_vars

(***************************************************************************)
(* Claims about the TF-IDF score, under SpecScore.                         *)
(***************************************************************************)
\* the distinct terms of the query and the tokens of the scored chunk
ScoreTerms == TokenSet(ev.query)

ScoreDocTokens == _tokenize(Lower(ev.all_docs[ev.i]))

\* tf(term, chunk) * idf(term) in thousandths, with the IDF the call used
TermShare(term) ==
    IF Len(ScoreDocTokens) = 0 THEN 0
    ELSE (CountOf(ScoreDocTokens, term) * tfidf_cache[term]) \div Len(ScoreDocTokens)

RECURSIVE SumShares(_)
SumShares(terms) ==
    IF terms = {} THEN 0
    ELSE LET t == CHOOSE x \in terms : TRUE
         IN  TermShare(t) + SumShares(terms \ {t})

\* C24: the TF-IDF score of a chunk is the sum over the distinct terms of
\* the query of tf(term, chunk) * idf(term), where tf is the number of the
\* chunk's tokens equal to the term divided by the number of its tokens, 0
\* for a chunk without tokens.
C24_DistinctTermsOnce ==
    ev.pc = "done" => ev.result = SumShares(ScoreTerms)

(***************************************************************************)
(* Claims about the final score of hybrid_search, under Spec.              *)
(***************************************************************************)
\* C25: every result of hybrid_search has final_score = semantic_weight *
\* semantic_score + tfidf_weight * tfidf_score, its semantic_score the
\* similarity semantic_search returned for its chunk and its tfidf_score the
\* TF-IDF score of its chunk divided by the maximum of the batch.
C25_FinalScoreFormula ==
    HybridDone
        => \A p \in 1..Len(last.results) :
              LET x == last.results[p]
              IN  /\ x.final_score = default_semantic_weight * x.semantic_score
                                     + default_tfidf_weight * x.tfidf_score
                  /\ \A k \in 1..Len(last.semantic_results) :
                        ChunkOf(last.semantic_results[k]) = ChunkOf(x)
                            => x.semantic_score = last.semantic_results[k].similarity
                  /\ \A k \in 1..Len(last.tfidf_results) :
                        ChunkOf(last.tfidf_results[k]) = ChunkOf(x)
                            => x.tfidf_score
                                 = (IF LastMaxTfidf > 0
                                    THEN (last.tfidf_results[k].tfidf_score * 1000)
                                             \div LastMaxTfidf
                                    ELSE 0)

(***************************************************************************)
(* The updater and the data_freshness table: update_rules and              *)
(* update_courses called one after the other, each step with the outcomes  *)
(* it can have, the clock moving on in steps of 30 days, and               *)
(* get_data_freshness_status read at any time.  Here upd is the call that  *)
(* is running, freshness the table (one row per data type), hist the clock *)
(* and, as history, the time of the last update that succeeded, and ev     *)
(* the last status read.                                                   *)
(***************************************************************************)
MaxUpdateCalls == 2

MaxTicks == 3

DataTypes == {"rules", "courses"}

NoRow == [exists |-> FALSE, last_update |-> 0, update_status |-> "none",
          records_updated |-> 0]

\* a write that keeps the time of the row it replaces
update_data_freshness_KeepTime(row, now, status, records_updated) ==
    [exists |-> TRUE, last_update |-> row.last_update, update_status |-> status,
     records_updated |-> records_updated]

\* update_data_freshness: INSERT OR REPLACE of the row of the data type, with
\* last_update = datetime.now()
update_data_freshness(row, now, status, records_updated) ==
    [exists |-> TRUE, last_update |-> now, update_status |-> status,
     records_updated |-> records_updated]

\* an except clause that lets the errors of the store through
Caught_NotStore(error) == error \notin {"StoreError"}

\* except Exception as e
Caught(error) == TRUE

\* the records a scrape returns, and what the steps of an update may do
ScrapedRecords == 2

ScrapeOutcomes == {"ok", "empty", "ScrapeError"}

ClearOutcomes == {"ok", "StoreError"}

AddOutcomes == {"ok", "ProviderError", "StoreError"}

NoCall == [pc |-> "idle", data_type |-> "rules", calls |-> 0, success_count |-> 0,
           error |-> "none", success |-> FALSE, records_updated |-> 0]

NoSuccess == [ever |-> FALSE, at |-> 0]

NoReport == [fn |-> "freshness_status", at |-> 0, status |-> <<>>]

InitUpdates ==
    /\ ct = CtIdle
    /\ collection = EmptyCollection
    /\ tfidf_cache = <<>>
    /\ last = NoOp
    /\ qry = QryIdle
    /\ thr = ThrIdle
    /\ qa = QaIdle
    /\ upd = NoCall
    /\ freshness = [t \in DataTypes |-> NoRow]
    /\ hist = [now |-> 0, ticks |-> 0, last_success |-> [t \in DataTypes |-> NoSuccess]]
    /\ ev = NoReport

\* where a step that failed with error goes on
AfterError(call, error) ==
    IF Caught(error) THEN [call EXCEPT !.pc = "except", !.error = error]
    ELSE [call EXCEPT !.pc = "raised", !.error = error]

\* update_rules or update_courses is called:
\* update_data_freshness(status='in_progress', records_updated=0)
UpdateStart ==
    /\ upd.pc \in {"idle", "returned"}
    /\ upd.calls < MaxUpdateCalls
    /\ \E t \in DataTypes :
          /\ upd' = [NoCall EXCEPT !.pc = "scrape", !.data_type = t,
                                   !.calls = upd.calls + 1]
          /\ freshness' = [freshness EXCEPT
                              ![t] = update_data_freshness(@, hist.now, "in_progress", 0)]
    /\ UNCHANGED <<ct, collection, tfidf_cache, last, hist, qry, thr, ev, qa>>

\* the scrape (or the sample data), the test for an empty result and the
\* insert loop, which counts the rows the database took
UpdateScrape ==
    /\ upd.pc = "scrape"
    /\ \E outcome \in ScrapeOutcomes, success_count \in 0..ScrapedRecords :
          upd' = IF outcome = "ok"
                 THEN [upd EXCEPT !.pc = IF upd.data_type = "rules" THEN "clear"
                                         ELSE "finish",
                                  !.success_count = success_count]
                 ELSE IF outcome = "empty"
                 THEN AfterError(upd, "Exception")
                 ELSE AfterError(upd, outcome)
    /\ UNCHANGED <<ct, collection, tfidf_cache, last, hist, qry, freshness, thr, ev, qa>>

\* update_rules: self.retriever.clear_collection()
UpdateClear ==
    /\ upd.pc = "clear"
    /\ \E outcome \in ClearOutcomes :
          upd' = IF outcome = "ok" THEN [upd EXCEPT !.pc = "add"]
                 ELSE AfterError(upd, outcome)
    /\ UNCHANGED <<ct, collection, tfidf_cache, last, hist, qry, freshness, thr, ev, qa>>

\* update_rules: self.retriever.add_documents(rules)
UpdateAdd ==
    /\ upd.pc = "add"
    /\ \E outcome \in AddOutcomes :
          upd' = IF outcome = "ok" THEN [upd EXCEPT !.pc = "finish"]
                 ELSE AfterError(upd, outcome)
    /\ UNCHANGED <<ct, collection, tfidf_cache, last, hist, qry, freshness, thr, ev, qa>>

\* update_data_freshness(status='success', records_updated=success_count);
\* return {'success': True, 'records_updated': success_count, ...}
UpdateFinish ==
    /\ upd.pc = "finish"
    /\ upd' = [upd EXCEPT !.pc = "returned", !.success = TRUE,
                          !.records_updated = upd.success_count]
    /\ freshness' = [freshness EXCEPT
                        ![upd.data_type] = update_data_freshness(@, hist.now, "success",
                                                                 upd.success_count)]
    /\ hist' = [hist EXCEPT !.last_success[upd.data_type] =
                                [ever |-> TRUE, at |-> hist.now]]
    /\ UNCHANGED <<ct, collection, tfidf_cache, last, qry, thr, ev, qa>>

\* the except branch: update_data_freshness(status='failed',
\* records_updated=0); return {'success': False, ...}
UpdateExcept ==
    /\ upd.pc = "except"
    /\ upd' = [upd EXCEPT !.pc = "returned", !.success = FALSE]
    /\ freshness' = [freshness EXCEPT
                        ![upd.data_type] = update_data_freshness(@, hist.now, "failed", 0)]
    /\ UNCHANGED <<ct, collection, tfidf_cache, last, hist, qry, thr, ev, qa>>

\* thirty days pass
Tick ==
    /\ hist.ticks < MaxTicks
    /\ hist' = [hist EXCEPT !.now = @ + 30, !.ticks = @ + 1]
    /\ UNCHANGED <<ct, collection, tfidf_cache, last, qry, thr, ev, qa>>
    /\ UNCHANGED <<upd, freshness>>

\* the warning level of get_data_freshness_status for an age in days
WarningLevel(age_days) ==
    IF age_days > 60 THEN "red"
    ELSE IF age_days > 30 THEN "yellow"
    ELSE "green"

\* get_data_freshness_status: one entry for every row of the table; every
\* row that update_data_freshness wrote has a last_update.  since_success
\* is history: the age of the last update that succeeded.
get_data_freshness_status ==
    /\ ev' = [fn |-> "freshness_status",
              at |-> hist.now,
              status |-> [t \in {x \in DataTypes : freshness[x].exists} |->
                             [last_update |-> freshness[t].last_update,
                              age_days |-> hist.now - freshness[t].last_update,
                              warning_level |->
                                  WarningLevel(hist.now - freshness[t].last_update),
                              update_status |-> freshness[t].update_status,
                              records_updated |-> freshness[t].records_updated,
                              succeeded |-> hist.last_success[t].ever,
                              since_success |-> hist.now - hist.last_success[t].at]]]
    /\ UNCHANGED <<ct, collection, tfidf_cache, last, hist, qry, thr, qa>>
    /\ UNCHANGED <<upd, freshness>>

NextUpdates ==
    \/ UpdateStart
    \/ UpdateScrape
    \/ UpdateClear
    \/ UpdateAdd
    \/ UpdateFinish
    \/ UpdateExcept
    \/ Tick
    \/ get_data_freshness_status

SpecUpdates == InitUpdates /\ [][NextUpdates]_vars

(***************************************************************************)
(* Claims about the updater, under SpecUpdates.                            *)
(***************************************************************************)
UpdateRunning == upd.pc \in {"scrape", "clear", "add", "finish", "except"}

\* C26: a call of update_rules or update_courses records 'in_progress' for
\* its data type first, raises nothing whatever step fails, and when it has
\* returned the recorded status is 'success' if it returned success = True
\* and 'failed' if it returned success = False, never 'in_progress'.
C26_StatusFollowsResult ==
    /\ upd.pc # "raised"
    /\ UpdateRunning => freshness[upd.data_type].update_status = "in_progress"
    /\ upd.pc = "returned"
          => /\ upd.success => freshness[upd.data_type].update_status = "success"
             /\ ~upd.success => freshness[upd.data_type].update_status = "failed"

\* update_rules has returned success = False after add_documents failed
\* in the store, and the status is 'failed'
C26_Witness ==
    /\ upd.pc = "returned"
    /\ upd.data_type = "rules"
    /\ upd.error = "StoreError"
    /\ ~upd.success
    /\ freshness["rules"].update_status = "failed"

\* C29: get_data_freshness_status never reports the warning level 'green'
\* for a data type whose most recent update is 'failed' or 'in_progress'
\* unless an update of that type succeeded at most 30 days before.
C29_GreenOnlyAfterSuccess ==
    \A t \in DOMAIN ev.status :
        (/\ ev.status[t].warning_level = "green"
         /\ ev.status[t].update_status \in {"failed", "in_progress"})
            => (ev.status[t].succeeded /\ ev.status[t].since_success <= 30)

(***************************************************************************)
(* More claims about answer_question, under SpecAnswer.                    *)
(***************************************************************************)
\* answer_question is over, hybrid_search gave contexts, the client
\* answered and the database took every statement
AnsweredWithContexts ==
    /\ qa.pc \in {"returned", "raised"}
    /\ qa.contexts # <<>>
    /\ qa.response_text # <<>>
    /\ qa.db_errors = 0

\* C27: when hybrid_search returns contexts and the call of the language
\* model succeeds, answer_question returns a result whose metrics have
\* total_tokens = input_tokens + output_tokens and has logged one query row
\* and one API usage row, with stream = False and with stream = True.
C27_TokensAndRows ==
    AnsweredWithContexts
        => /\ qa.pc = "returned"
           /\ qa.result.metrics.total_tokens
                = qa.result.metrics.input_tokens + qa.result.metrics.output_tokens
           /\ Len(qa.query_history) = 1
           /\ Len(qa.api_usage) = 1

(***************************************************************************)
(* The embedding service and its singleton: get_embedding_service called   *)
(* several times in one process.  Here ev holds the process: what is       *)
(* installed and set in the environment, the module's _embedding_service   *)
(* and the last call.                                                      *)
(***************************************************************************)
MaxServiceCalls == 2

NoService == [exists |-> FALSE, provider |-> "none", client |-> FALSE, model |-> FALSE]

\* _initialize_local: SentenceTransformer(model_name), or the error raised
_initialize_local(env, model_loads) ==
    IF ~env.sentence_transformers THEN [error |-> "RuntimeError", service |-> NoService]
    ELSE IF ~model_loads THEN [error |-> "ModelError", service |-> NoService]
    ELSE [error |-> "none",
          service |-> [exists |-> TRUE, provider |-> "local", client |-> FALSE,
                       model |-> TRUE]]

\* _initialize_voyage: the client, or the fall back to the local model when
\* the key is missing or the client cannot be made
_initialize_voyage(env, client_made, model_loads) ==
    IF ~env.voyage_api_key THEN _initialize_local(env, model_loads)
    ELSE IF ~client_made THEN _initialize_local(env, model_loads)
    ELSE [error |-> "none",
          service |-> [exists |-> TRUE, provider |-> "voyage", client |-> TRUE,
                       model |-> FALSE]]

\* EmbeddingService(provider): __init__ and _initialize_provider
EmbeddingService(provider, env, client_made, model_loads) ==
    IF provider = "voyage"
    THEN IF ~env.voyageai THEN _initialize_local(env, model_loads)
         ELSE _initialize_voyage(env, client_made, model_loads)
    ELSE IF provider = "local" THEN _initialize_local(env, model_loads)
    ELSE [error |-> "ValueError", service |-> NoService]

\* get_embedding_service(provider): the service returned, the error raised
\* and the singleton the call leaves
get_embedding_service(singleton, provider, env, client_made, model_loads) ==
    IF singleton.exists
    THEN [error |-> "none", returned |-> singleton, singleton |-> singleton]
    ELSE LET chosen == IF provider # "None" THEN provider
                       ELSE IF env.embedding_model = "voyage" THEN "voyage"
                       ELSE "local"
             made == EmbeddingService(chosen, env, client_made, model_loads)
         IN  IF made.error # "none"
             THEN [error |-> made.error, returned |-> NoService, singleton |-> singleton]
             ELSE [error |-> "none", returned |-> made.service,
                   singleton |-> made.service]

\* the processes: what is installed, VOYAGE_API_KEY and EMBEDDING_MODEL
Environments ==
    [voyageai : BOOLEAN, sentence_transformers : BOOLEAN, voyage_api_key : BOOLEAN,
     embedding_model : {"local", "voyage"}]

ProviderArguments == {"None", "local", "voyage", "openai"}

NoServiceCall == [provider |-> "None", error |-> "none", returned |-> NoService]

InitService ==
    /\ ct = CtIdle
    /\ collection = EmptyCollection
    /\ tfidf_cache = <<>>
    /\ last = NoOp
    /\ hist = HistInit
    /\ InitRefreshIdle
    /\ thr = ThrIdle
    /\ qa = QaIdle
    /\ ev \in {[fn |-> "get_embedding_service", env |-> env, singleton |-> NoService,
                calls |-> 0, call |-> NoServiceCall] : env \in Environments}

\* get_embedding_service(provider) is called
GetEmbeddingService ==
    /\ ev.calls < MaxServiceCalls
    /\ \E provider \in ProviderArguments, client_made \in BOOLEAN, model_loads \in BOOLEAN :
          LET r == get_embedding_service(ev.singleton, provider, ev.env,
                                         client_made, model_loads)
          IN  ev' = [ev EXCEPT !.singleton = r.singleton,
                               !.calls = @ + 1,
                               !.call = [provider |-> provider, error |-> r.error,
                                         returned |-> r.returned]]
    /\ UNCHANGED <<ct, collection, tfidf_cache, last, hist, thr, qa>>
    /\ UNCHANGED refreshVars

NextService == GetEmbeddingService

SpecService == InitService /\ [][NextService]_vars

(***************************************************************************)
(* Claims about the embedding service, under SpecService.                  *)
(***************************************************************************)
\* C28: get_embedding_service(provider='local') returns a service whose
\* provider is 'local', whatever calls were made before; a service that was
\* constructed has a client when its provider is 'voyage' and a model when
\* its provider is 'local'.
C28_LocalWhenAsked ==
    /\ (ev.calls > 0 /\ ev.call.provider = "local" /\ ev.call.error = "none")
          => ev.call.returned.provider = "local"
    /\ ev.singleton.exists
          => /\ ev.singleton.provider = "voyage" => ev.singleton.client
             /\ ev.singleton.provider = "local" => ev.singleton.model

(***************************************************************************)
(* _make_request of the two scrapers: the retry loop, one step for the     *)
(* delay and one for the HTTP request of every attempt.  Here ev is the    *)
(* call.  Each request ends, with a response or with an error, after the   *)
(* timeout at the latest, so every step that is possible is taken.         *)
(***************************************************************************)
MaxRetries == 3

Scrapers == {"USGARulesScraper", "GolfCourseScraper"}

\* session.get and raise_for_status: a response, or the error raised
RequestOutcomes == {"ok", "HTTPError", "ConnectionError", "Timeout"}

\* an except clause for HTTP status errors only
IsRequestException_StatusOnly(outcome) == outcome = "HTTPError"

\* except requests.exceptions.RequestException
IsRequestException(outcome) == outcome \in {"HTTPError", "ConnectionError", "Timeout"}

InitRequest ==
    /\ ct = CtIdle
    /\ collection = EmptyCollection
    /\ tfidf_cache = <<>>
    /\ last = NoOp
    /\ hist = HistInit
    /\ InitRefreshIdle
    /\ thr = ThrIdle
    /\ qa = QaIdle
    /\ ev \in {[fn |-> "_make_request", scraper |-> sc, max_retries |-> m, pc |-> "call",
                attempt |-> 0, delays |-> 0, outcomes |-> <<>>, result |-> "pending",
                raised |-> "none"] : sc \in Scrapers, m \in 0..MaxRetries}

\* for attempt in range(self.max_retries): ... return None behind the loop
RequestCall ==
    /\ ev.pc = "call"
    /\ ev' = IF ev.max_retries > 0 THEN [ev EXCEPT !.pc = "sleep"]
             ELSE [ev EXCEPT !.pc = "done", !.result = "None"]
    /\ UNCHANGED <<ct, collection, tfidf_cache, last, hist, thr, qa>>
    /\ UNCHANGED refreshVars

\* time.sleep(self.delay)
RequestSleep ==
    /\ ev.pc = "sleep"
    /\ ev' = [ev EXCEPT !.pc = "get", !.delays = @ + 1]
    /\ UNCHANGED <<ct, collection, tfidf_cache, last, hist, thr, qa>>
    /\ UNCHANGED refreshVars

\* response = self.session.get(url, timeout=30); response.raise_for_status();
\* return response; and the except clause with its return on the last
\* attempt
RequestGet ==
    /\ ev.pc = "get"
    /\ \E outcome \in RequestOutcomes :
          ev' = IF outcome = "ok"
                THEN [ev EXCEPT !.pc = "done",
                                !.outcomes = Append(@, outcome),
                                !.result = "response"]
                ELSE IF ~IsRequestException(outcome)
                THEN [ev EXCEPT !.pc = "done",
                                !.outcomes = Append(@, outcome),
                                !.raised = outcome]
                ELSE IF ev.attempt = ev.max_retries - 1
                THEN [ev EXCEPT !.pc = "done",
                                !.outcomes = Append(@, outcome),
                                !.result = "None"]
                ELSE [ev EXCEPT !.pc = "sleep",
                                !.outcomes = Append(@, outcome),
                                !.attempt = @ + 1]
    /\ UNCHANGED <<ct, collection, tfidf_cache, last, hist, thr, qa>>
    /\ UNCHANGED refreshVars

NextRequest ==
    \/ RequestCall
    \/ RequestSleep
    \/ RequestGet

SpecRequest == InitRequest /\ [][NextRequest]_vars /\ WF_vars(NextRequest)

(***************************************************************************)
(* Claims about _make_request, under SpecRequest.                          *)
(***************************************************************************)
\* the attempts made and those that got a response
Attempts == Len(ev.outcomes)

Succeeded == {k \in 1..Attempts : ev.outcomes[k] = "ok"}

\* what C30 says of every state of a call
RequestAsStated ==
    /\ Attempts <= ev.max_retries
    /\ ev.delays = (IF ev.pc = "get" THEN Attempts + 1 ELSE Attempts)
    /\ ev.raised = "none"
    /\ Succeeded # {} => (ev.pc = "done" /\ ev.result = "response"
                          /\ Succeeded = {Attempts})
    /\ (ev.pc = "done" /\ Succeeded = {})
          => (ev.result = "None" /\ Attempts = ev.max_retries)

\* C30: _make_request ends after at most max_retries HTTP attempts, each
\* after one delay; it returns the response of the first attempt that
\* succeeds and makes no attempt after it, returns None when max_retries
\* attempts have failed with a request error or when max_retries is 0, and
\* never raises a request error.
C30_RetriesThenNone == [](RequestAsStated) /\ <>(ev.pc = "done")

\* the second of three attempts got a response behind a connection error
\* and nothing was requested after it
C30_Witness ==
    /\ ev.pc = "done"
    /\ ev.max_retries = 3
    /\ ev.outcomes = <<"ConnectionError", "ok">>
    /\ ev.delays = 2
    /\ ev.result = "response"

====
